---- MODULE Spec2Model ----
(***************************************************************************)
(* A model of the AI course generator: the candidate-model loop and the    *)
(* response-recovery parser of AIService.generateCourseSyllabus            *)
(* (src/services/ai-service.ts) and the transactional course creation of   *)
(* CourseService.createCourseWithModules (src/services/course-service.ts). *)
(*                                                                         *)
(* A text is a sequence of lexical units.  Punctuation, white space,       *)
(* digits and back-ticks are single characters; a run of letters (a JSON   *)
(* key such as title, a word of prose, the literal null) is one unit,      *)
(* because no regular expression of the parser and no rule of JSON.parse   *)
(* ever splits a run of letters of the texts considered here.              *)
(***************************************************************************)
EXTENDS Integers, Sequences, FiniteSets, TLC

(***************************************************************************)
(* Bounds of the model.                                                    *)
(***************************************************************************)
MaxModels == 2
MaxModules == 2
MaxRequests == 2

(***************************************************************************)
(* Characters.                                                             *)
(***************************************************************************)
NL == "\n"
SP == " "
Q == "\""
\* the back-tick character (the lexer of TLA+ takes none inside a string)
BT == "<bt>"

IsWs(c) == c \in {SP, NL}

Digits == <<"0", "1", "2", "3", "4", "5", "6", "7", "8", "9">>

IsDigit(c) == \E d \in 1..10 : Digits[d] = c

DigitVal(c) == (CHOOSE d \in 1..10 : Digits[d] = c) - 1

(***************************************************************************)
(* String primitives of the JavaScript runtime, on texts.                  *)
(***************************************************************************)
\* index of the first unit at or after i that is not white space
\* (Len(s) + 1 when there is none): the end of a greedy \s*
RECURSIVE SkipWs(_, _)
SkipWs(s, i) ==
    IF i <= Len(s) /\ IsWs(s[i]) THEN SkipWs(s, i + 1) ELSE i

\* the largest index in lo..hi holding a line break, 0 when there is none:
\* where a greedy \s* followed by \n\s* gives back
LastNL(s, lo, hi) ==
    IF \E p \in lo..hi : s[p] = NL
    THEN CHOOSE p \in lo..hi : s[p] = NL /\ \A q \in (p + 1)..hi : s[q] # NL
    ELSE 0

RECURSIVE TrimEnd(_)
TrimEnd(s) ==
    IF Len(s) > 0 /\ IsWs(s[Len(s)]) THEN TrimEnd(SubSeq(s, 1, Len(s) - 1)) ELSE s

\* String.prototype.trim
trim(s) == TrimEnd(SubSeq(s, SkipWs(s, 1), Len(s)))

\* the least position in lo..hi at which P holds, 0 when there is none: where
\* a left-to-right search finds its first match
FirstIn(lo, hi, P(_)) ==
    LET C == {p \in lo..hi : P(p)}
    IN  IF C = {} THEN 0 ELSE CHOOSE p \in C : \A q \in C : p <= q

\* the greatest position in lo..hi at which P holds, 0 when there is none
LastIn(lo, hi, P(_)) ==
    LET C == {p \in lo..hi : P(p)}
    IN  IF C = {} THEN 0 ELSE CHOOSE p \in C : \A q \in C : p >= q

\* String.prototype.indexOf(c) from position i; 0 when absent
indexOf(s, c, i) == FirstIn(i, Len(s), LAMBDA p : s[p] = c)

\* String.prototype.lastIndexOf(c) from position i down; 0 when absent
lastIndexOf(s, c, i) == LastIn(1, i, LAMBDA p : s[p] = c)

\* String.prototype.startsWith
startsWith(s, p) == Len(s) >= Len(p) /\ SubSeq(s, 1, Len(p)) = p

endsWith(s, p) == Len(s) >= Len(p) /\ SubSeq(s, Len(s) - Len(p) + 1, Len(s)) = p

(***************************************************************************)
(* Fence stripping and object extraction.                                  *)
(***************************************************************************)
Fence == <<BT, BT, BT>>

\* replace(/^<fence>json\s*/i, "") and replace(/^<fence>\s*/, ""): an opening of
\* n units and the white space after it
StripOpeningFence(s, n) == SubSeq(s, SkipWs(s, n + 1), Len(s))

\* replace(/\s*<fence>$/, ""): a closing fence at the very end and the white
\* space before it
StripClosingFence(s) ==
    IF endsWith(s, Fence) THEN TrimEnd(SubSeq(s, 1, Len(s) - 3)) ELSE s

RemoveCodeFence(s) ==
    IF startsWith(s, Fence \o <<"json">>) THEN StripClosingFence(StripOpeningFence(s, 4))
    ELSE IF startsWith(s, Fence) THEN StripClosingFence(StripOpeningFence(s, 3))
    ELSE s

\* jsonContent.match(/\{[\s\S]*\}/): from the first { to the last }
jsonMatch(s) ==
    LET f == indexOf(s, "{", 1)
        l == lastIndexOf(s, "}", Len(s))
    IN  IF f # 0 /\ l > f THEN SubSeq(s, f, l) ELSE s

(***************************************************************************)
(* The comma repairs, each a global regular-expression replace.            *)
(***************************************************************************)
\* A global replace scans from the left: it takes the first match at or after
\* position i, copies the text before it, writes the replacement and goes on
\* after the end of the match.

\* /,(\s*[}\]])/ matches at p
TrailingCommaAt(s, p) ==
    s[p] = "," /\ SkipWs(s, p + 1) <= Len(s) /\ s[SkipWs(s, p + 1)] \in {"}", "]"}

\* replace(/,(\s*[}\]])/g, "$1")
RECURSIVE RemoveTrailingCommasFrom(_, _)
RemoveTrailingCommasFrom(s, i) ==
    LET m == FirstIn(i, Len(s), LAMBDA p : TrailingCommaAt(s, p))
        j == SkipWs(s, m + 1)
    IN  IF m = 0 THEN SubSeq(s, i, Len(s))
        ELSE SubSeq(s, i, m - 1) \o SubSeq(s, m + 1, j)
                 \o RemoveTrailingCommasFrom(s, j + 1)

RemoveTrailingCommas(s) == RemoveTrailingCommasFrom(s, 1)

\* replace(/(F\s*)(\n\s* S)/g, "$1,$2"): a unit of F, white space holding a
\* line break, a unit of S; the comma goes before the last line break
\* /(F)\s*\n\s*(S)/ matches at p
LineBreakBetweenAt(s, p, F, S) ==
    LET j == SkipWs(s, p + 1)
    IN  s[p] \in F /\ j <= Len(s) /\ s[j] \in S /\ LastNL(s, p + 1, j - 1) > 0

RECURSIVE InsertCommaFrom(_, _, _, _)
InsertCommaFrom(s, i, F, S) ==
    LET m == FirstIn(i, Len(s), LAMBDA p : LineBreakBetweenAt(s, p, F, S))
        j == SkipWs(s, m + 1)
        k == LastNL(s, m + 1, j - 1)
    IN  IF m = 0 THEN SubSeq(s, i, Len(s))
        ELSE SubSeq(s, i, k - 1) \o <<",">> \o SubSeq(s, k, j)
                 \o InsertCommaFrom(s, j + 1, F, S)

InsertComma(s, F, S) == InsertCommaFrom(s, 1, F, S)

\* the five replaces that add missing commas before the first strict parse
FixMissingCommas(s) ==
    LET s1 == InsertComma(s, {Q}, {Q})
        s2 == InsertComma(s1, {"}"}, {"{"})
        s3 == InsertComma(s2, {"]"}, {"["})
        s4 == InsertComma(s3, {"}"}, {Q})
    IN  InsertComma(s4, {"]"}, {Q})

\* the text handed to the first JSON.parse
CleanJsonContent(content) ==
    FixMissingCommas(RemoveTrailingCommas(jsonMatch(RemoveCodeFence(trim(content)))))

(***************************************************************************)
(* JSON.parse.  A value is a record [t, v]: t its JavaScript type, v its   *)
(* content (an object is the sequence of its members [k, v] in the order   *)
(* of the text).                                                           *)
(***************************************************************************)
\* the unit at position i, "" beyond the end of the text
At(s, i) == IF i >= 1 /\ i <= Len(s) THEN s[i] ELSE ""

JNull == [t |-> "null", v |-> <<>>]
JUndefined == [t |-> "undefined", v |-> <<>>]
JStr(x) == [t |-> "string", v |-> x]
JNum(n) == [t |-> "number", v |-> n]
JBool(b) == [t |-> "boolean", v |-> b]
JArr(xs) == [t |-> "array", v |-> xs]
JObj(ms) == [t |-> "object", v |-> ms]

\* a SyntaxError at position i
SyntaxError(i) == [ok |-> FALSE, v |-> JUndefined, i |-> i]
Parsed(val, i) == [ok |-> TRUE, v |-> val, i |-> i]

\* a string literal opening at i: up to the next quote, no line break inside
ParseString(s, i) ==
    LET j == indexOf(s, Q, i + 1)
    IN  IF At(s, i) # Q THEN SyntaxError(i)
        ELSE IF j = 0 THEN SyntaxError(Len(s) + 1)
        ELSE IF LastNL(s, i + 1, j - 1) # 0 THEN SyntaxError(LastNL(s, i + 1, j - 1))
        ELSE Parsed(JStr(SubSeq(s, i + 1, j - 1)), j + 1)

RECURSIVE DigitsEnd(_, _)
DigitsEnd(s, i) == IF IsDigit(At(s, i)) THEN DigitsEnd(s, i + 1) ELSE i

\* the number written by the digits lo..hi
RECURSIVE NumVal(_, _, _)
NumVal(s, lo, hi) ==
    IF hi < lo THEN 0 ELSE 10 * NumVal(s, lo, hi - 1) + DigitVal(s[hi])

\* an integer literal at i: -? (0 | [1-9][0-9]*)
ParseNumber(s, i) ==
    LET d == IF At(s, i) = "-" THEN i + 1 ELSE i
        e == IF At(s, d) = "0" THEN d + 1 ELSE DigitsEnd(s, d)
        n == NumVal(s, d, e - 1)
    IN  IF ~IsDigit(At(s, d)) THEN SyntaxError(d)
        ELSE Parsed(JNum(IF d > i THEN 0 - n ELSE n), e)

\* obj[key], undefined when the object has no such member
RECURSIVE GetMember(_, _, _)
GetMember(ms, key, i) ==
    IF i > Len(ms) THEN JUndefined
    ELSE IF ms[i].k = key THEN ms[i].v
    ELSE GetMember(ms, key, i + 1)

HasMember(ms, key) == \E i \in 1..Len(ms) : ms[i].k = key

\* obj[key] = val: an existing member keeps its place, a new one goes last
SetMember(ms, key, val) ==
    IF HasMember(ms, key)
    THEN [i \in 1..Len(ms) |-> IF ms[i].k = key THEN [k |-> key, v |-> val] ELSE ms[i]]
    ELSE Append(ms, [k |-> key, v |-> val])

RECURSIVE ParseValue(_, _)
RECURSIVE ParseMembers(_, _, _)
RECURSIVE ParseElements(_, _, _)

\* the members of an object, the first one due at or after i
ParseMembers(s, i, acc) ==
    LET key == ParseString(s, SkipWs(s, i))
        c == SkipWs(s, key.i)
        val == ParseValue(s, c + 1)
        d == SkipWs(s, val.i)
    IN  IF ~key.ok THEN SyntaxError(key.i)
        ELSE IF At(s, c) # ":" THEN SyntaxError(c)
        ELSE IF ~val.ok THEN SyntaxError(val.i)
        ELSE IF At(s, d) = ","
             THEN ParseMembers(s, d + 1, SetMember(acc, key.v.v, val.v))
        ELSE IF At(s, d) = "}"
             THEN Parsed(JObj(SetMember(acc, key.v.v, val.v)), d + 1)
        ELSE SyntaxError(d)

\* the elements of an array, the first one due at or after i
ParseElements(s, i, acc) ==
    LET val == ParseValue(s, i)
        d == SkipWs(s, val.i)
    IN  IF ~val.ok THEN SyntaxError(val.i)
        ELSE IF At(s, d) = "," THEN ParseElements(s, d + 1, Append(acc, val.v))
        ELSE IF At(s, d) = "]" THEN Parsed(JArr(Append(acc, val.v)), d + 1)
        ELSE SyntaxError(d)

ParseValue(s, i) ==
    LET p == SkipWs(s, i)
        c == At(s, p)
    IN  IF c = "{"
        THEN IF At(s, SkipWs(s, p + 1)) = "}"
             THEN Parsed(JObj(<<>>), SkipWs(s, p + 1) + 1)
             ELSE ParseMembers(s, p + 1, <<>>)
        ELSE IF c = "["
        THEN IF At(s, SkipWs(s, p + 1)) = "]"
             THEN Parsed(JArr(<<>>), SkipWs(s, p + 1) + 1)
             ELSE ParseElements(s, p + 1, <<>>)
        ELSE IF c = Q THEN ParseString(s, p)
        ELSE IF c = "-" \/ IsDigit(c) THEN ParseNumber(s, p)
        ELSE IF c = "null" THEN Parsed(JNull, p + 1)
        ELSE IF c = "true" THEN Parsed(JBool(TRUE), p + 1)
        ELSE IF c = "false" THEN Parsed(JBool(FALSE), p + 1)
        ELSE SyntaxError(p)

\* JSON.parse(s): one value and nothing but white space after it
JSONparse(s) ==
    LET r == ParseValue(s, 1)
    IN  IF ~r.ok THEN r
        ELSE IF SkipWs(s, r.i) # Len(s) + 1 THEN SyntaxError(SkipWs(s, r.i))
        ELSE r

(***************************************************************************)
(* The aggressive repair that follows a failed first parse.                *)
(***************************************************************************)
DigitSet == {Digits[d] : d \in 1..10}

\* the units that occur in a text
UnitsOf(s) == {s[p] : p \in 1..Len(s)}

\* jsonContent.substring(firstBrace, lastBrace + 1) when both braces are found
BraceSubstring(s) ==
    LET firstBrace == indexOf(s, "{", 1)
        lastBrace == lastIndexOf(s, "}", Len(s))
    IN  IF firstBrace # 0 /\ lastBrace # 0 /\ lastBrace > firstBrace
        THEN SubSeq(s, firstBrace, lastBrace)
        ELSE s

\* replace(/(F)\s*\n\s*(S)/g, "$1,$2"): the white space between the two units
\* is dropped and a comma put in its place
RECURSIVE JoinWithCommaFrom(_, _, _, _)
JoinWithCommaFrom(s, i, F, S) ==
    LET m == FirstIn(i, Len(s), LAMBDA p : LineBreakBetweenAt(s, p, F, S))
        j == SkipWs(s, m + 1)
    IN  IF m = 0 THEN SubSeq(s, i, Len(s))
        ELSE SubSeq(s, i, m) \o <<",", s[j]>> \o JoinWithCommaFrom(s, j + 1, F, S)

JoinWithComma(s, F, S) == JoinWithCommaFrom(s, 1, F, S)

\* replace(/([^,}\]])\s*(\n\s*[}\]])/g, "$1$2"): the white space before the last
\* line break that precedes a closing brace or bracket is dropped
RECURSIVE TightenBeforeCloseFrom(_, _)
TightenBeforeCloseFrom(s, i) ==
    LET m == FirstIn(i, Len(s),
                     LAMBDA p : LineBreakBetweenAt(s, p, UnitsOf(s) \ {",", "}", "]"},
                                                   {"}", "]"}))
        j == SkipWs(s, m + 1)
        k == LastNL(s, m + 1, j - 1)
    IN  IF m = 0 THEN SubSeq(s, i, Len(s))
        ELSE SubSeq(s, i, m) \o SubSeq(s, k, j) \o TightenBeforeCloseFrom(s, j + 1)

TightenBeforeClose(s) == TightenBeforeCloseFrom(s, 1)

\* the text handed to the second JSON.parse
AggressiveFix(s) ==
    LET s1 == JoinWithComma(BraceSubstring(s), {"}", "]", Q}, {Q, "{"})
        s2 == TightenBeforeClose(s1)
        s3 == JoinWithComma(s2, {"}", "]", Q}, {"{", Q, "-"} \cup DigitSet)
    IN  RemoveTrailingCommas(s3)

(***************************************************************************)
(* Field extraction, the last attempt.                                     *)
(***************************************************************************)
\* "key"\s*:\s* at position i: the position after it, 0 when it does not match
AfterKey(s, i, key) ==
    LET c == SkipWs(s, i + 3)
    IN  IF At(s, i) = Q /\ At(s, i + 1) = key /\ At(s, i + 2) = Q /\ At(s, c) = ":"
        THEN SkipWs(s, c + 1)
        ELSE 0

NoMatch == [found |-> FALSE, end |-> 0]

\* the first match at or after i of "key"\s*:\s*"([^"]+)" (with minLen 1) or of
\* "key"\s*:\s*"([^"]*)" (with minLen 0): the group and the match's last position
StringFieldAt(s, i, key, minLen) ==
    LET p == AfterKey(s, i, key)
        e == indexOf(s, Q, p + 1)
    IN  p # 0 /\ At(s, p) = Q /\ e # 0 /\ e - p - 1 >= minLen

FindStringField(s, i, key, minLen) ==
    LET m == FirstIn(i, Len(s), LAMBDA q : StringFieldAt(s, q, key, minLen))
        p == AfterKey(s, m, key)
        e == indexOf(s, Q, p + 1)
    IN  IF m = 0 THEN NoMatch
        ELSE [found |-> TRUE, end |-> e, group |-> SubSeq(s, p + 1, e - 1)]

\* the first match at or after i of "key"\s*:\s*(\d+); the group read by parseInt
FindNumberField(s, i, key) ==
    LET m == FirstIn(i, Len(s),
                     LAMBDA q : AfterKey(s, q, key) # 0 /\ IsDigit(At(s, AfterKey(s, q, key))))
        p == AfterKey(s, m, key)
    IN  IF m = 0 THEN NoMatch
        ELSE [found |-> TRUE, end |-> DigitsEnd(s, p) - 1,
              group |-> NumVal(s, p, DigitsEnd(s, p) - 1)]

titleMatch(s) == FindStringField(s, 1, "title", 1)

descMatch(s) == FindStringField(s, 1, "description", 0)

\* the first match of "modules"\s*:\s*\[([\s\S]*)\]: up to the last ] of the text
modulesMatch(s) ==
    LET l == lastIndexOf(s, "]", Len(s))
        m == FirstIn(1, Len(s),
                     LAMBDA q : AfterKey(s, q, "modules") # 0
                                /\ At(s, AfterKey(s, q, "modules")) = "["
                                /\ l > AfterKey(s, q, "modules"))
        p == AfterKey(s, m, "modules")
    IN  IF m = 0 THEN NoMatch
        ELSE [found |-> TRUE, end |-> l, group |-> SubSeq(s, p + 1, l - 1)]

ModuleDraft(title, description, order) ==
    JObj(<<[k |-> <<"title">>, v |-> JStr(title)],
           [k |-> <<"description">>, v |-> JStr(description)],
           [k |-> <<"order">>, v |-> JNum(order)]>>)

\* modulesText.matchAll(...): a {, then lazily the first title, after it the first
\* description, after it the first numeric order, after it the first }
RECURSIVE moduleMatchesFrom(_, _)
MatchClose(s, t, d, o, c) ==
    IF c = 0 THEN <<>>
    ELSE <<ModuleDraft(t.group, d.group, o.group)>> \o moduleMatchesFrom(s, c + 1)

MatchOrder(s, t, d, o) ==
    IF ~o.found THEN <<>> ELSE MatchClose(s, t, d, o, indexOf(s, "}", o.end + 1))

MatchDescription(s, t, d) ==
    IF ~d.found THEN <<>> ELSE MatchOrder(s, t, d, FindNumberField(s, d.end + 1, "order"))

MatchTitle(s, t) ==
    IF ~t.found THEN <<>>
    ELSE MatchDescription(s, t, FindStringField(s, t.end + 1, "description", 0))

MatchOpen(s, b) ==
    IF b = 0 THEN <<>> ELSE MatchTitle(s, FindStringField(s, b + 1, "title", 1))

moduleMatchesFrom(s, i) == MatchOpen(s, indexOf(s, "{", i))

moduleMatches(modulesText) == moduleMatchesFrom(modulesText, 1)

OrderOf(module) == GetMember(module.v, <<"order">>, 1).v

\* one module put into a list sorted by order, after its equals
RECURSIVE InsertByOrder(_, _)
InsertByOrder(sorted, m) ==
    IF sorted = <<>> THEN <<m>>
    ELSE IF OrderOf(sorted[Len(sorted)]) <= OrderOf(m) THEN Append(sorted, m)
    ELSE Append(InsertByOrder(SubSeq(sorted, 1, Len(sorted) - 1), m), sorted[Len(sorted)])

\* the modules left in the order they were located in
Unsorted(ms) == ms

\* modules.sort((a, b) => a.order - b.order), a stable sort
RECURSIVE SortByOrder(_)
SortByOrder(ms) ==
    IF ms = <<>> THEN <<>>
    ELSE InsertByOrder(SortByOrder(SubSeq(ms, 1, Len(ms) - 1)), ms[Len(ms)])

\* the modules located in the group of modulesMatch
ModulesIn(mods) == IF mods.found THEN moduleMatches(mods.group) ELSE <<>>

\* the candidate rebuilt from the located fields, or no candidate
Candidate(title, desc, mods, found) ==
    IF title.found /\ mods.found /\ Len(found) > 0
    THEN [ok |-> TRUE,
          v |-> JObj(<<[k |-> <<"title">>, v |-> JStr(title.group)],
                       [k |-> <<"description">>,
                        v |-> JStr(IF desc.found THEN desc.group ELSE <<>>)],
                       [k |-> <<"modules">>, v |-> JArr(SortByOrder(found))]>>)]
    ELSE [ok |-> FALSE, v |-> JUndefined]

ExtractFields(s) ==
    Candidate(titleMatch(s), descMatch(s), modulesMatch(s), ModulesIn(modulesMatch(s)))

(***************************************************************************)
(* Validation of the candidate and the defaulting of order.                *)
(***************************************************************************)
\* value.key as JavaScript reads it: undefined on anything but an object
\* that has the member
Prop(value, key) ==
    IF value.t = "object" THEN GetMember(value.v, key, 1) ELSE JUndefined

\* !value is false
Truthy(value) ==
    IF value.t \in {"undefined", "null"} THEN FALSE
    ELSE IF value.t = "string" THEN Len(value.v) > 0
    ELSE IF value.t = "number" THEN value.v # 0
    ELSE IF value.t = "boolean" THEN value.v
    ELSE TRUE

\* Array.isArray(value)
IsArray(value) == value.t = "array"

\* reading a property of null or undefined throws a TypeError
ThrowsOnRead(value) == value.t \in {"null", "undefined"}

\* the members {...value} copies: those of an object, the indexed elements of
\* an array, none of a number, a boolean or null
Spread(value) ==
    IF value.t = "object" THEN value.v
    ELSE IF value.t = "array"
    THEN [i \in 1..Len(value.v) |-> [k |-> <<Digits[i]>>, v |-> value.v[i]]]
    ELSE <<>>

\* module.order || index + 1: a falsy order, 0 among them, is replaced
OrderOrDefaultFalsy(module, index) ==
    IF ~Truthy(Prop(module, <<"order">>)) THEN JNum(index + 1)
    ELSE Prop(module, <<"order">>)

\* module.order ?? index + 1, for the module at 0-based position index
OrderOrDefault(module, index) ==
    IF Prop(module, <<"order">>).t \in {"undefined", "null"}
    THEN JNum(index + 1)
    ELSE Prop(module, <<"order">>)

\* {...module, order: module.order ?? index + 1}
ValidatedModule(module, index) ==
    JObj(SetMember(Spread(module), <<"order">>, OrderOrDefault(module, index)))

validatedModules(modules) ==
    [i \in 1..Len(modules) |-> ValidatedModule(modules[i], i - 1)]

\* the checks and the result of generateCourseSyllabus once a candidate parsed
ValidateStructure(parsedData) ==
    LET modules == Prop(parsedData, <<"modules">>)
    IN  IF ThrowsOnRead(parsedData)
        THEN [ok |-> FALSE, error |-> "TypeError", v |-> JUndefined]
        ELSE IF ~Truthy(Prop(parsedData, <<"title">>))
                \/ ~Truthy(Prop(parsedData, <<"description">>))
                \/ ~IsArray(modules)
        THEN [ok |-> FALSE, error |-> "Invalid course data structure received from AI",
              v |-> JUndefined]
        ELSE IF \E i \in 1..Len(modules.v) : ThrowsOnRead(modules.v[i])
        THEN [ok |-> FALSE, error |-> "TypeError", v |-> JUndefined]
        ELSE [ok |-> TRUE, error |-> "",
              v |-> JObj(SetMember(Spread(parsedData), <<"modules">>,
                                   JArr(validatedModules(modules.v))))]

(***************************************************************************)
(* The texts a model may answer.  An answer is described by the course it  *)
(* was written from, its layout (compact, or one member per line), the     *)
(* separator left out of it (defect) and what it is wrapped in; Render     *)
(* writes the text.                                                        *)
(***************************************************************************)
\* a member that is not written at all
Absent == <<"<absent>">>

ModuleA == [title |-> <<"a">>, description |-> <<"x">>, order |-> <<"2">>, duration |-> Absent]
ModuleB == [title |-> <<"b">>, description |-> <<"y">>, order |-> Absent, duration |-> <<"h">>]
ModuleC == [title |-> <<"c">>, description |-> <<"z">>, order |-> <<"0">>, duration |-> <<"h">>]

ModuleDrafts == {ModuleA, ModuleB, ModuleC}

\* the sequences of at most n module drafts
RECURSIVE ModuleLists(_)
ModuleLists(n) ==
    IF n = 0 THEN {<<>>}
    ELSE ModuleLists(n - 1)
         \cup {Append(ms, m) : ms \in {l \in ModuleLists(n - 1) : Len(l) = n - 1},
                               m \in ModuleDrafts}

Course(title, description, modules) ==
    [title |-> title, description |-> description, modulesKind |-> "array",
     modules |-> modules]

\* courses that pass validation
GoodCourses ==
    {Course(t, <<"D">>, ms) : t \in {<<"T">>, <<"A", ",", "}">>}, ms \in ModuleLists(MaxModules)}

\* courses with a title, a description or a modules member that must not pass
BadCourses ==
    {Course(<<>>, <<"D">>, <<ModuleA>>), Course(Absent, <<"D">>, <<ModuleA>>),
     Course(<<"T">>, <<>>, <<ModuleA>>), Course(<<"T">>, Absent, <<ModuleA>>),
     [Course(<<"T">>, <<"D">>, <<>>) EXCEPT !.modulesKind = "absent"],
     [Course(<<"T">>, <<"D">>, <<>>) EXCEPT !.modulesKind = "number"],
     [Course(<<"T">>, <<"D">>, <<>>) EXCEPT !.modulesKind = "null"]}

RenderString(v) == <<Q>> \o v \o <<Q>>

\* "key":value, with a blank after the colon in the line layout
RenderMember(key, value, layout) ==
    <<Q, key, Q, ":">> \o (IF layout = "lines" THEN <<SP>> ELSE <<>>) \o value

\* the separator after a member: a comma, or in the line layout a comma and a
\* line break; a left-out comma leaves the line break alone
Separator(layout, leftOut) ==
    IF layout = "lines" THEN (IF leftOut THEN <<NL>> ELSE <<",", NL>>)
    ELSE (IF leftOut THEN <<>> ELSE <<",">>)

\* the members (texts) joined, the separator after member i left out when
\* leftOut[i]
RECURSIVE JoinMembers(_, _, _, _)
JoinMembers(members, layout, leftOut, i) ==
    IF i > Len(members) THEN <<>>
    ELSE IF i = Len(members) THEN members[i]
    ELSE members[i] \o Separator(layout, leftOut[i])
             \o JoinMembers(members, layout, leftOut, i + 1)

Enclose(open, body, close, layout) ==
    IF layout = "lines" /\ body # <<>>
    THEN <<open, NL>> \o body \o <<NL, close>>
    ELSE <<open>> \o body \o <<close>>

\* the members of a record that are written, in the order of keys
Written(rec, keys) ==
    SelectSeq(keys, LAMBDA k : rec[k] # Absent)

RenderModule(m, layout, defect) ==
    LET keys == Written(m, <<"title", "description", "order", "duration">>)
        texts == [i \in 1..Len(keys) |->
                     RenderMember(keys[i],
                                  IF keys[i] = "order" THEN m.order ELSE RenderString(m[keys[i]]),
                                  layout)]
        leftOut == [i \in 1..Len(keys) |->
                       \/ defect = "afterModuleTitle" /\ keys[i] = "title"
                       \/ defect = "afterOrder" /\ keys[i] = "order"]
    IN  Enclose("{", JoinMembers(texts, layout, leftOut, 1), "}", layout)

RenderModules(c, layout, defect) ==
    IF c.modulesKind = "number" THEN <<"7">>
    ELSE IF c.modulesKind = "null" THEN <<"null">>
    ELSE LET texts == [i \in 1..Len(c.modules) |-> RenderModule(c.modules[i], layout, defect)]
             leftOut == [i \in 1..Len(c.modules) |-> defect = "betweenModules"]
         IN  Enclose("[", JoinMembers(texts, layout, leftOut, 1),
                     IF defect = "noClosingBracket" THEN "" ELSE "]", layout)

RenderCourse(c, layout, defect) ==
    LET keys == SelectSeq(<<"title", "description", "modules">>,
                          LAMBDA k : IF k = "modules" THEN c.modulesKind # "absent"
                                     ELSE c[k] # Absent)
        texts == [i \in 1..Len(keys) |->
                     RenderMember(keys[i],
                                  IF keys[i] = "modules" THEN RenderModules(c, layout, defect)
                                  ELSE RenderString(c[keys[i]]),
                                  layout)]
        leftOut == [i \in 1..Len(keys) |-> defect = "afterTitle" /\ keys[i] = "title"]
    IN  SelectSeq(Enclose("{", JoinMembers(texts, layout, leftOut, 1), "}", layout),
                  LAMBDA u : u # "")

Wrap(text, wrap) ==
    IF wrap = "fence" THEN Fence \o <<NL>> \o text \o <<NL>> \o Fence
    ELSE IF wrap = "fenceJson" THEN Fence \o <<"json", NL>> \o text \o <<NL>> \o Fence \o <<NL>>
    ELSE IF wrap = "prose" THEN <<"Here", SP, "it", SP, "is", ":", NL>> \o text \o <<NL, "Enjoy">>
    ELSE IF wrap = "proseBraces"
    THEN <<"Fill", SP, "{", "topic", "}", ":", NL>> \o text
    ELSE text

Answer(course, layout, defect, wrap) ==
    [course |-> course, layout |-> layout, defect |-> defect, wrap |-> wrap, raw |-> <<>>]

\* a text that is not written from a course
RawAnswer(text) ==
    [course |-> Course(Absent, Absent, <<>>), layout |-> "raw", defect |-> "none",
     wrap |-> "none", raw |-> text]

Render(a) ==
    IF a.layout = "raw" THEN a.raw
    ELSE Wrap(RenderCourse(a.course, a.layout, a.defect), a.wrap)

\* whether the defect leaves a separator out of the text of the course
DefectApplies(c, defect) ==
    LET ms == c.modules
    IN  IF defect = "afterTitle" THEN c.title # Absent /\ c.description # Absent
        ELSE IF defect = "afterModuleTitle" THEN Len(ms) > 0
        ELSE IF defect = "afterOrder"
        THEN \E i \in 1..Len(ms) : ms[i].order # Absent /\ ms[i].duration # Absent
        ELSE IF defect = "betweenModules" THEN Len(ms) > 1
        ELSE IF defect = "noClosingBracket" THEN c.modulesKind = "array"
        ELSE defect = "none"

Defects == {"afterTitle", "afterModuleTitle", "afterOrder", "betweenModules", "noClosingBracket"}

WellFormedAnswers ==
    {Answer(c, l, "none", w) : c \in GoodCourses \cup BadCourses, l \in {"compact", "lines"},
                               w \in {"none", "fence", "fenceJson"}}

ProseAnswers ==
    {Answer(c, "compact", "none", w) : c \in GoodCourses, w \in {"prose", "proseBraces"}}

DefectiveAnswers ==
    {a \in {Answer(c, "lines", d, "none") :
                c \in GoodCourses \cup {Course(<<"T">>, <<>>, <<ModuleC>>),
                                        Course(Absent, <<"D">>, <<ModuleC>>)},
                d \in Defects} :
        DefectApplies(a.course, a.defect)}

\* a course with one more member, an array in lines that lacks a comma before
\* a number: {"title":"T","description":d,"modules":[],"tags":["x" NL 1]}
TaggedCourseText(d) ==
    <<"{", Q, "title", Q, ":", Q, "T", Q, ",", Q, "description", Q, ":", Q>> \o d
      \o <<Q, ",", Q, "modules", Q, ":", "[", "]", ",", Q, "tags", Q, ":", "[",
           Q, "x", Q, NL, "1", "]", "}">>

\* jsonContent.substring(0, 1000): the length of the preview written to the log
PreviewLimit == 1000

\* the same course followed, inside its braces, by a text that is no JSON and
\* is longer than the preview
LongTaggedText ==
    SubSeq(TaggedCourseText(<<"D">>), 1, Len(TaggedCourseText(<<"D">>)) - 1)
      \o [i \in 1..PreviewLimit |-> "?"] \o <<"}">>

\* a course whose one module is written order first, followed inside its
\* braces by a character that is no JSON:
\* {"title":"T","description":"D","modules":[{"order":1,"title":"M","description":"E"}]?}
ReorderedModuleText ==
    <<"{", Q, "title", Q, ":", Q, "T", Q, ",", Q, "description", Q, ":", Q, "D", Q, ",",
      Q, "modules", Q, ":", "[",
      "{", Q, "order", Q, ":", "1", ",", Q, "title", Q, ":", Q, "M", Q, ",",
           Q, "description", Q, ":", Q, "E", Q, "}",
      "]", "?", "}">>

RawAnswers ==
    {RawAnswer(<<"null">>), RawAnswer(<<"7">>), RawAnswer(<<"Sorry">>),
     RawAnswer(TaggedCourseText(<<"D">>)), RawAnswer(TaggedCourseText(<<>>)),
     RawAnswer(LongTaggedText), RawAnswer(ReorderedModuleText)}

\* every answer the parser is run on
Answers == WellFormedAnswers \cup ProseAnswers \cup DefectiveAnswers \cup RawAnswers

(***************************************************************************)
(* The state of the program.                                               *)
(***************************************************************************)
VARIABLES
    pc,           \* where the request in progress stands
    requests,     \* the number of generate requests started so far
    modelsToTry,  \* the candidate model identifiers of the request
    modelIndex,   \* the position of the for loop in modelsToTry
    content,      \* the text received so far (<<>>: null or the empty string)
    lastError,    \* the error the outer catch recorded last
    calls,        \* the generateContent calls made, in order
    answer,       \* the description of the answer held in content
    jsonContent,  \* the text the parser works on
    parseError,   \* the position the first JSON.parse failed at (0: it did not)
    parsedData,   \* the candidate
    tier,         \* the attempt that produced the candidate (0: none yet)
    result,       \* what generateCourseSyllabus returned or threw
    courses,      \* the committed course rows, oldest first
    modules,      \* the committed module rows
    tx,           \* the open transaction of createCourseWithModules
    rolledBack,   \* the transactions that were rolled back: the course id and the
                  \* number of module rows written before the failure
    apiKey,       \* whether GEMINI_API_KEY is set in the environment
    discovery,    \* what the request for the list of models meets
    userRows,     \* the user rows with their names, oldest first
    upsert,       \* the find-or-create calls in progress, by caller
    page,         \* the state of the Home component in the browser
    inflight,     \* the server actions the page has called and not yet heard from
    users,        \* the user rows, by e-mail address
    input,        \* the form data of the request in progress
    invoked,      \* the services the server action in progress has called
    log,          \* what the request in progress wrote with console.error
    response      \* what the last server action returned to its caller

genVars == <<modelsToTry, modelIndex, content, lastError, calls, answer>>
parseVars == <<jsonContent, parseError, parsedData, tier>>
dbVars == <<courses, modules, tx, rolledBack>>
envVars == <<apiKey, discovery, userRows, upsert, page, inflight>>
ioVars == <<envVars, users, input, invoked, log, response>>
vars == <<pc, requests, genVars, parseVars, result, dbVars, ioVars>>

\* no request for the list of models
NoDiscovery == [kind |-> "none", models |-> <<>>]

\* the page before it is opened
NoPage == <<>>

\* the fallback list of model identifiers
AVAILABLE_MODELS == <<"gemini-1.5-pro", "gemini-1.5-flash", "gemini-pro", "gemini-2.0-flash-exp">>

NoError == [model |-> "", mode |-> ""]
NoResult == [ok |-> FALSE, error |-> "", v |-> JUndefined, tried |-> <<>>, last |-> NoError]
NoTx == [open |-> FALSE, course |-> <<>>, modules |-> {}, pending |-> {}]
NoAnswer == RawAnswer(<<>>)

\* a form field: formData.get gives the string, or null when the field is absent;
\* a string that is only compared by its length is kept as that length
FormNull == [t |-> "null", len |-> 0, v |-> ""]
FormString(len, v) == [t |-> "string", len |-> len, v |-> v]
NoInput == [topic |-> FormNull, difficulty |-> FormNull]

\* an error message: its text, the message of the parse error it quotes (its
\* position, 0: none) and the part of the answer it quotes (<<>>: none)
Message(text, original) == [text |-> text, original |-> original, preview |-> <<>>]
NoMessage == Message("", 0)
NoResponse == [action |-> "", success |-> FALSE, error |-> NoMessage, data |-> <<>>]
LogEntry(label, text, error) == [label |-> label, text |-> text, error |-> error]

\* the answers the models give in the whole-request specification
SampleAnswers ==
    {Answer(Course(<<"T">>, <<"D">>, <<ModuleA, ModuleB>>), "compact", "none", "none"),
     Answer(Course(<<"T">>, <<"D">>, <<ModuleC>>), "lines", "afterOrder", "none"),
     Answer(Course(<<"T">>, <<"D">>, <<ModuleB>>), "lines", "afterTitle", "fence"),
     Answer(Course(<<"T">>, <<>>, <<ModuleA>>), "compact", "none", "none"),
     RawAnswer(<<"Sorry">>)}

Init ==
    /\ apiKey \in BOOLEAN
    /\ discovery = NoDiscovery
    /\ userRows = <<>>
    /\ upsert = <<>>
    /\ page = NoPage
    /\ inflight = {}
    /\ users = {}
    /\ input = NoInput
    /\ invoked = {}
    /\ log = <<>>
    /\ response = NoResponse
    /\ pc = "idle"
    /\ requests = 0
    /\ modelsToTry = <<>>
    /\ modelIndex = 1
    /\ content = <<>>
    /\ lastError = NoError
    /\ calls = <<>>
    /\ answer = NoAnswer
    /\ jsonContent = <<>>
    /\ parseError = 0
    /\ parsedData = JUndefined
    /\ tier = 0
    /\ result = NoResult
    /\ courses = <<>>
    /\ modules = {}
    /\ tx = NoTx
    /\ rolledBack = {}

(***************************************************************************)
(* generateCourseSyllabus: the loop over the candidate models.             *)
(***************************************************************************)
\* .max(200, ...): the longest topic the schema accepts
MaxTopicLength == 200

DIFFICULTY_LEVELS == {"beginner", "intermediate", "advanced"}

\* the issues of GenerateCourseSchema.safeParse, in the order of the keys; a
\* value that is not a string fails the type check and no other
GenerateCourseIssues(form) ==
    (IF form.topic.t # "string" THEN <<"Expected string, received null">>
     ELSE (IF form.topic.len < 1 THEN <<"Topic is required">> ELSE <<>>)
          \o (IF form.topic.len > MaxTopicLength
              THEN <<"Topic must be less than 200 characters">> ELSE <<>>))
    \o (IF form.difficulty.t = "string" /\ form.difficulty.v \in DIFFICULTY_LEVELS THEN <<>>
        ELSE <<"Difficulty must be beginner, intermediate, or advanced">>)

\* the forms submitted to generateCourse
GenerateForms ==
    {[topic |-> t, difficulty |-> d] :
        t \in {FormNull, FormString(0, ""), FormString(1, ""), FormString(MaxTopicLength, ""),
               FormString(MaxTopicLength + 1, "")},
        d \in {FormNull, FormString(8, "beginner"), FormString(6, "expert")}}

\* a handler that lets every form pass
NotValidated(form) == <<>>

\* validationResult.error.errors of the handler: nothing is called before the
\* form has passed
Validated(form) == GenerateCourseIssues(form)

Failure(action, message) ==
    [action |-> action, success |-> FALSE, error |-> message, data |-> <<>>]
Success(action, data) ==
    [action |-> action, success |-> TRUE, error |-> NoMessage, data |-> data]

DemoUser == "demo@example.com"

\* generateCourse on a form that fails the schema: the first issue is returned
RejectGenerate ==
    /\ pc = "idle"
    /\ requests < MaxRequests
    /\ requests' = requests + 1
    /\ \E form \in GenerateForms :
          /\ Validated(form) # <<>>
          /\ input' = form
          /\ response' = Failure("generateCourse", Message(Validated(form)[1], 0))
    /\ invoked' = {}
    /\ log' = <<>>
    /\ UNCHANGED <<pc, genVars, parseVars, result, dbVars, envVars, users>>

\* a request that starts the generation before it has looked the user up
StartGenerateBeforeUser ==
    /\ pc = "idle"
    /\ requests < MaxRequests
    /\ requests' = requests + 1
    /\ \E form \in GenerateForms :
          /\ Validated(form) = <<>>
          /\ input' = form
    /\ UNCHANGED users
    /\ invoked' = {"getOrCreateUser", "generateCourseSyllabus"}
    /\ log' = <<>>
    /\ response' = NoResponse
    /\ \E n \in 1..MaxModels : modelsToTry' = SubSeq(AVAILABLE_MODELS, 1, n)
    /\ modelIndex' = 1
    /\ content' = <<>>
    /\ lastError' = NoError
    /\ calls' = <<>>
    /\ answer' = NoAnswer
    /\ jsonContent' = <<>>
    /\ parseError' = 0
    /\ parsedData' = JUndefined
    /\ tier' = 0
    /\ result' = NoResult
    /\ pc' = "loop"
    /\ UNCHANGED <<dbVars, envVars>>

\* the request starts: the form has passed, the user is found or created, the
\* candidate list is chosen and the loop entered
StartGenerate ==
    /\ pc = "idle"
    /\ requests < MaxRequests
    /\ requests' = requests + 1
    /\ \E form \in GenerateForms :
          /\ Validated(form) = <<>>
          /\ input' = form
    /\ users' = users \cup {DemoUser}
    /\ invoked' = {"getOrCreateUser", "generateCourseSyllabus"}
    /\ log' = <<>>
    /\ response' = NoResponse
    /\ \E n \in 1..MaxModels : modelsToTry' = SubSeq(AVAILABLE_MODELS, 1, n)
    /\ modelIndex' = 1
    /\ content' = <<>>
    /\ lastError' = NoError
    /\ calls' = <<>>
    /\ answer' = NoAnswer
    /\ jsonContent' = <<>>
    /\ parseError' = 0
    /\ parsedData' = JUndefined
    /\ tier' = 0
    /\ result' = NoResult
    /\ pc' = "loop"
    /\ UNCHANGED <<dbVars, envVars>>

Call(model, mode, threw, text) == [model |-> model, mode |-> mode, threw |-> threw, text |-> text]

\* the position of a model identifier in the candidate list
ModelPos(model) == CHOOSE i \in 1..Len(modelsToTry) : modelsToTry[i] = model

\* a loop that goes on to the next model whatever text it received
ReceivedNoBreak(a) ==
    /\ content' = Render(a)
    /\ answer' = a
    /\ pc' = "loop"
    /\ modelIndex' = modelIndex + 1

\* a loop that asks the same model again in plain text when the text is empty
ReceivedEmptyFallsBack(a) ==
    /\ content' = Render(a)
    /\ answer' = a
    /\ UNCHANGED modelIndex
    /\ pc' = IF Render(a) # <<>> THEN "parse" ELSE "fallback"

\* a loop that asks the same model again when the text is empty
ReceivedAsksAgain(a) ==
    /\ content' = Render(a)
    /\ answer' = a
    /\ UNCHANGED modelIndex
    /\ pc' = IF Render(a) # <<>> THEN "parse" ELSE "loop"

\* content = response.text(); if (content) break; otherwise the next model
Received(a) ==
    /\ content' = Render(a)
    /\ answer' = a
    /\ IF Render(a) # <<>>
       THEN pc' = "parse" /\ UNCHANGED modelIndex
       ELSE pc' = "loop" /\ modelIndex' = modelIndex + 1

\* a client that falls back on a key of its own
geminiWithDefaultKey == [key |-> TRUE]

\* new GoogleGenerativeAI(process.env.GEMINI_API_KEY ?? ""): the client is
\* built with or without a key; without one the service rejects every call
gemini == [key |-> apiKey]

\* the call in JSON mode: it returns a text, possibly empty, or it throws
CallStructured ==
    /\ pc = "loop"
    /\ modelIndex <= Len(modelsToTry)
    /\ \/ \E a \in SampleAnswers \cup {NoAnswer} :
            /\ gemini.key
            /\ calls' = Append(calls, Call(modelsToTry[modelIndex], "json", FALSE, Render(a)))
            /\ Received(a)
            /\ UNCHANGED lastError
       \/ /\ calls' = Append(calls, Call(modelsToTry[modelIndex], "json", TRUE, <<>>))
          /\ pc' = "fallback"
          /\ UNCHANGED <<modelIndex, content, answer, lastError>>
    /\ UNCHANGED <<requests, modelsToTry, parseVars, result, dbVars, ioVars>>

\* the call in plain-text mode, made from the catch of the JSON-mode call: a
\* throw reaches the outer catch, which records it and goes to the next model
CallPlainText ==
    /\ pc = "fallback"
    /\ \/ \E a \in SampleAnswers \cup {NoAnswer} :
            /\ gemini.key
            /\ calls' = Append(calls, Call(modelsToTry[modelIndex], "text", FALSE, Render(a)))
            /\ Received(a)
            /\ UNCHANGED lastError
       \/ /\ calls' = Append(calls, Call(modelsToTry[modelIndex], "text", TRUE, <<>>))
          /\ lastError' = [model |-> modelsToTry[modelIndex], mode |-> "text"]
          /\ modelIndex' = modelIndex + 1
          /\ pc' = "loop"
          /\ UNCHANGED <<content, answer>>
    /\ UNCHANGED <<requests, modelsToTry, parseVars, result, dbVars, ioVars>>

\* an error that names only the last identifier tried
UpstreamUnavailableLastOnly(tried, last) ==
    [ok |-> FALSE, error |-> "No content received from Gemini", v |-> JUndefined,
     tried |-> SubSeq(tried, Len(tried), Len(tried)), last |-> last]

\* No content received from Gemini. Tried models: ... Last error: ...
UpstreamUnavailable(tried, last) ==
    [ok |-> FALSE, error |-> "No content received from Gemini", v |-> JUndefined,
     tried |-> tried, last |-> last]

\* the loop is over with no content
Exhausted ==
    /\ pc = "loop"
    /\ modelIndex > Len(modelsToTry)
    /\ content = <<>>
    /\ result' = UpstreamUnavailable(modelsToTry, lastError)
    /\ pc' = "done"
    /\ UNCHANGED <<requests, genVars, parseVars, dbVars, ioVars>>

(***************************************************************************)
(* generateCourseSyllabus: the recovery of the course from the text.       *)
(***************************************************************************)
Thrown(error) == [NoResult EXCEPT !.error = error]

\* a first attempt whose outcome is ignored: the repair runs in every case
RepairWithoutFailure ==
    /\ pc = "parse"
    /\ jsonContent' = CleanJsonContent(content)
    /\ parseError' = JSONparse(CleanJsonContent(content)).i
    /\ pc' = "repair"
    /\ UNCHANGED <<parsedData, tier>>
    /\ UNCHANGED <<requests, genVars, result, dbVars, ioVars>>

\* the clean-up of the text and the first JSON.parse
StrictParse ==
    /\ pc = "parse"
    /\ jsonContent' = CleanJsonContent(content)
    /\ LET r == JSONparse(CleanJsonContent(content))
       IN  IF r.ok
           THEN /\ parsedData' = r.v
                /\ tier' = 1
                /\ pc' = "validate"
                /\ UNCHANGED parseError
           ELSE /\ parseError' = r.i
                /\ pc' = "repair"
                /\ UNCHANGED <<parsedData, tier>>
    /\ UNCHANGED <<requests, genVars, result, dbVars, ioVars>>

\* the aggressive fixes and the second JSON.parse
AggressiveRepair ==
    /\ pc = "repair"
    /\ jsonContent' = AggressiveFix(jsonContent)
    /\ LET r == JSONparse(AggressiveFix(jsonContent))
       IN  IF r.ok
           THEN parsedData' = r.v /\ tier' = 2 /\ pc' = "validate"
           ELSE pc' = "extract" /\ UNCHANGED <<parsedData, tier>>
    /\ UNCHANGED <<requests, genVars, parseError, result, dbVars, ioVars>>

\* jsonContent.substring(0, 1000)
Preview(s) == SubSeq(s, 1, IF Len(s) < PreviewLimit THEN Len(s) ELSE PreviewLimit)

\* a message that quotes the error of the second JSON.parse
SecondErrorQuoted(first, text) == JSONparse(text).i

\* Original error: ${parseError.message}: the error of the first JSON.parse
OriginalError(first, text) == first

InvalidJson == "Invalid JSON received from AI"

\* the extraction of the fields by pattern; without a title or a module the
\* second error is rethrown, the text and the first error are written to the
\* log and the failure is reported as invalid JSON
FieldExtraction ==
    /\ pc = "extract"
    /\ LET e == ExtractFields(jsonContent)
       IN  IF e.ok
           THEN /\ parsedData' = e.v
                /\ tier' = 3
                /\ pc' = "validate"
                /\ UNCHANGED <<result, log>>
           ELSE /\ result' = Thrown(InvalidJson)
                /\ log' = log \o <<LogEntry("JSON parsing failed after all attempts. Content preview:",
                                            Preview(jsonContent), NoMessage),
                                   LogEntry("Parse error:", <<>>, Message("", parseError))>>
                /\ pc' = "done"
                /\ UNCHANGED <<parsedData, tier>>
    /\ UNCHANGED <<requests, genVars, jsonContent, parseError, dbVars, envVars, users, input,
                   invoked, response>>

\* the validation of the candidate and the defaulting of order
Validate ==
    /\ pc = "validate"
    /\ LET r == ValidateStructure(parsedData)
       IN  IF r.ok
           THEN result' = [NoResult EXCEPT !.ok = TRUE, !.v = r.v] /\ pc' = "save"
           ELSE result' = Thrown(r.error) /\ pc' = "done"
    /\ UNCHANGED <<requests, genVars, parseVars, dbVars, ioVars>>

(***************************************************************************)
(* CourseService: the store, and createCourseWithModules in its            *)
(* transaction.                                                            *)
(***************************************************************************)
\* the message of the error the store throws on a failure of its own
StorageError == "storage"

\* a store whose error for a missing row reads like any other failure
RecordNotFoundAsFailure == "storage"

\* the message of the error update and delete throw when no row has the key
RecordNotFound == "record not found"

\* the course data handed to createCourseWithModules
courseData == result.v

CourseRow(id, userId, data) ==
    [id |-> id, userId |-> userId, title |-> Prop(data, <<"title">>),
     topic |-> input.topic, difficulty |-> input.difficulty,
     description |-> Prop(data, <<"description">>)]

\* module.duration ?? null
DurationOrNull(module) ==
    IF Prop(module, <<"duration">>).t = "undefined" THEN JNull
    ELSE Prop(module, <<"duration">>)

ModuleRow(courseId, i, module) ==
    [id |-> <<courseId, i>>, courseId |-> courseId, title |-> Prop(module, <<"title">>),
     description |-> Prop(module, <<"description">>), order |-> Prop(module, <<"order">>),
     duration |-> DurationOrNull(module)]

\* the rows of a module the store accepts: the required columns with their types
RowAccepted(row) ==
    row.title.t = "string" /\ row.description.t = "string" /\ row.order.t = "number"

\* a store without the transaction: the course row written before the failure stays
CoursesAfterPartialWrite == courses \o tx.course

\* the committed tables once the callback of $transaction has thrown: the
\* rows written inside the transaction are discarded
CoursesAfterRollback == courses

ModulesAfterRollback == modules

\* the committed tables once the callback of $transaction has returned
CoursesAfterCommit == courses \o tx.course

ModulesAfterCommit == modules \cup tx.modules

\* tx.course.create
TxCreateCourse ==
    /\ pc = "save"
    /\ tx' = [open |-> TRUE, course |-> <<CourseRow(requests, DemoUser, courseData)>>,
              modules |-> {}, pending |-> 1..Len(Prop(courseData, <<"modules">>).v)]
    /\ pc' = "modules"
    /\ invoked' = invoked \cup {"createCourseWithModules"}
    /\ UNCHANGED <<requests, genVars, parseVars, result, courses, modules, rolledBack,
                   envVars, users, input, log, response>>

\* one of the tx.syllabusModule.create calls issued by Promise.all succeeds
TxCreateModule ==
    /\ pc = "modules"
    /\ \E i \in tx.pending :
          LET row == ModuleRow(requests, i, Prop(courseData, <<"modules">>).v[i])
          IN  /\ RowAccepted(row)
              /\ tx' = [tx EXCEPT !.modules = @ \cup {row}, !.pending = @ \ {i}]
    /\ UNCHANGED <<pc, requests, genVars, parseVars, result, courses, modules, rolledBack, ioVars>>

\* one of the creates is rejected: Promise.all rejects, the callback throws and
\* the transaction is rolled back
TxModuleFails ==
    /\ pc = "modules"
    /\ tx.pending # {}
    /\ courses' = CoursesAfterRollback
    /\ modules' = ModulesAfterRollback
    /\ rolledBack' = rolledBack \cup {[id |-> requests, written |-> Cardinality(tx.modules)]}
    /\ tx' = NoTx
    /\ result' = Thrown(StorageError)
    /\ pc' = "done"
    /\ UNCHANGED <<requests, genVars, parseVars, ioVars>>

\* every create has succeeded: the callback returns and the transaction commits
TxCommit ==
    /\ pc = "modules"
    /\ tx.pending = {}
    /\ courses' = CoursesAfterCommit
    /\ modules' = ModulesAfterCommit
    /\ tx' = NoTx
    /\ pc' = "done"
    /\ UNCHANGED <<requests, genVars, parseVars, result, rolledBack, ioVars>>

\* the message of the error generateCourseSyllabus or the store has thrown
ErrorMessage ==
    IF result.error = InvalidJson
    THEN Message(InvalidJson, OriginalError(parseError, jsonContent))
    ELSE Message(result.error, 0)

\* a catch that returns no message
NotSurfaced(isError, message, fallback) == NoMessage

\* error instanceof Error ? error.message : fallback
Surfaced(isError, message, fallback) == IF isError THEN message ELSE Message(fallback, 0)

\* generateCourse returns: the course, or from its catch the message of the error
Respond ==
    /\ pc = "done"
    /\ pc' = "idle"
    /\ IF result.ok
       THEN /\ response' = Success("generateCourse", <<>>)
            /\ UNCHANGED log
       ELSE /\ response' = Failure("generateCourse",
                                   Surfaced(TRUE, ErrorMessage, "An unexpected error occurred"))
            /\ log' = Append(log, LogEntry("Error generating course:", <<>>, ErrorMessage))
    /\ UNCHANGED <<requests, genVars, parseVars, result, dbVars, envVars, users, input, invoked>>

\* the module rows of a course
ModulesOf(courseId) == {m \in modules : m.courseId = courseId}

\* rows in the order of their creation
RECURSIVE OrderedById(_)
OrderedById(rows) ==
    IF rows = {} THEN <<>>
    ELSE LET first == CHOOSE m \in rows : \A n \in rows : m.id[2] <= n.id[2]
         IN  <<first>> \o OrderedById(rows \ {first})

\* rows in ascending order of their order column (rows of equal order by id)
RECURSIVE OrderedByOrder(_)
OrderedByOrder(rows) ==
    IF rows = {} THEN <<>>
    ELSE LET first == CHOOSE m \in rows :
                         \A n \in rows :
                            \/ m.order.v < n.order.v
                            \/ m.order.v = n.order.v /\ m.id[2] <= n.id[2]
         IN  <<first>> \o OrderedByOrder(rows \ {first})

\* prisma.course.findUnique with its modules ordered by order: null when absent
getCourseById(courseId) ==
    IF \E i \in 1..Len(courses) : courses[i].id = courseId
    THEN [found |-> TRUE,
          course |-> <<courses[CHOOSE i \in 1..Len(courses) : courses[i].id = courseId]>>,
          modules |-> OrderedByOrder(ModulesOf(courseId))]
    ELSE [found |-> FALSE, course |-> <<>>, modules |-> <<>>]

\* the sequence in reverse
Reverse(xs) == [i \in 1..Len(xs) |-> xs[Len(xs) + 1 - i]]

\* a listing in the order of creation
listOldestFirst(userId) ==
    LET mine == SelectSeq(courses, LAMBDA c : c.userId = userId)
    IN  [i \in 1..Len(mine) |->
            [id |-> mine[i].id, moduleIds |-> {m.id : m \in ModulesOf(mine[i].id)}]]

\* prisma.course.findMany of a user, newest first, each with its module ids
listCoursesByUser(userId) ==
    LET mine == SelectSeq(Reverse(courses), LAMBDA c : c.userId = userId)
    IN  [i \in 1..Len(mine) |->
            [id |-> mine[i].id, moduleIds |-> {m.id : m \in ModulesOf(mine[i].id)}]]

(***************************************************************************)
(* The server actions over the stored courses. Each one is a request of    *)
(* its own; the store answers it, or rejects it with an error of its own.  *)
(***************************************************************************)
\* a key sent by the caller: the id, or null when the field is absent
FormNoId(none) == [t |-> "null", id |-> none]
FormId(id) == [t |-> "string", id |-> id]

CourseIds == 1..MaxRequests
ModuleIds == CourseIds \X (1..MaxModules)

HasCourse(courseId) == \E i \in 1..Len(courses) : courses[i].id = courseId
HasModule(moduleId) == \E m \in modules : m.id = moduleId

\* z.string(): the issue of a value that is no string; .min(1): of one too short
StringIssues(field, min) ==
    IF field.t # "string" THEN <<"Expected string, received null">>
    ELSE IF field.len < min THEN <<"String must contain at least 1 character(s)">>
    ELSE <<>>

\* the start of a request that runs in one step
Request ==
    /\ pc = "idle"
    /\ requests < MaxRequests
    /\ requests' = requests + 1
    /\ log' = <<>>
    /\ UNCHANGED <<pc, genVars, parseVars, result, tx, rolledBack, envVars>>

\* the rows of the courses of the response, each with its module count
Listed(rows) ==
    [i \in 1..Len(rows) |-> [id |-> rows[i].id, moduleCount |-> Cardinality(rows[i].moduleIds)]]

\* getAllCourses: the demo user is found or created and their courses listed
GetAllCourses ==
    /\ Request
    /\ input' = NoInput
    /\ \/ /\ users' = users \cup {DemoUser}
          /\ invoked' = {"getOrCreateUser", "listCoursesByUser"}
          /\ response' = Success("getAllCourses", Listed(listCoursesByUser(DemoUser)))
       \/ /\ invoked' = {"getOrCreateUser"}
          /\ response' = Failure("getAllCourses",
                                 Surfaced(TRUE, Message(StorageError, 0), "Failed to fetch courses"))
          /\ UNCHANGED users
    /\ UNCHANGED <<courses, modules>>

\* getCourseById of the page: the course with its modules, or Course not found
GetCourse ==
    /\ Request
    /\ \E courseId \in CourseIds :
          /\ input' = [courseId |-> FormId(courseId)]
          /\ \/ response' = IF getCourseById(courseId).found
                             THEN Success("getCourseById", <<getCourseById(courseId)>>)
                             ELSE Failure("getCourseById", Message("Course not found", 0))
             \/ response' = Failure("getCourseById",
                                    Surfaced(TRUE, Message(StorageError, 0), "Failed to fetch course"))
    /\ invoked' = {"getCourseById"}
    /\ UNCHANGED <<courses, modules, users>>

\* the issues of UpdateCourseSchema.safeParse: formData.get gives null for a
\* field that is absent, and optional() lets undefined pass but not null
UpdateCourseIssues(form) ==
    (IF form.courseId.t # "string" THEN <<"Expected string, received null">> ELSE <<>>)
    \o StringIssues(form.title, 1) \o StringIssues(form.description, 0)
    \o StringIssues(form.topic, 1)
    \o (IF form.difficulty.t = "string" /\ form.difficulty.v \in DIFFICULTY_LEVELS THEN <<>>
        ELSE <<"Invalid enum value">>)

UpdateCourseForms ==
    {[courseId |-> c, title |-> t, description |-> d, topic |-> p, difficulty |-> l] :
        c \in {FormNoId(0)} \cup {FormId(id) : id \in CourseIds},
        t \in {FormNull, FormString(0, ""), FormString(1, "U")},
        d \in {FormNull, FormString(1, "V")},
        p \in {FormNull, FormString(2, "")},
        l \in {FormNull, FormString(8, "advanced")}}

\* prisma.course.update({where: {id}, data: updates}) on the row that has the id
UpdatedCourse(row, form) ==
    [row EXCEPT !.title = JStr(<<form.title.v>>), !.description = JStr(<<form.description.v>>),
                !.topic = form.topic, !.difficulty = form.difficulty]

\* updateCourse: the form is validated, then the row of the course is updated
UpdateCourse ==
    /\ Request
    /\ \E form \in UpdateCourseForms :
          /\ input' = form
          /\ IF UpdateCourseIssues(form) # <<>>
             THEN /\ response' = Failure("updateCourse", Message(UpdateCourseIssues(form)[1], 0))
                  /\ invoked' = {}
                  /\ UNCHANGED courses
             ELSE /\ invoked' = {"updateCourse"}
                  /\ \/ IF HasCourse(form.courseId.id)
                        THEN /\ courses' = [i \in 1..Len(courses) |->
                                               IF courses[i].id = form.courseId.id
                                               THEN UpdatedCourse(courses[i], form)
                                               ELSE courses[i]]
                             /\ response' = Success("updateCourse", <<>>)
                        ELSE /\ response' = Failure("updateCourse",
                                  Surfaced(TRUE, Message(RecordNotFound, 0), "Failed to update course"))
                             /\ UNCHANGED courses
                     \/ /\ response' = Failure("updateCourse",
                                  Surfaced(TRUE, Message(StorageError, 0), "Failed to update course"))
                        /\ UNCHANGED courses
    /\ UNCHANGED <<modules, users>>

NaN == [t |-> "nan", v |-> 0]

\* formData.get('order') ? parseInt(formData.get('order')) : undefined
OrderOfForm(field) ==
    IF field.t # "string" \/ field.len = 0 THEN JUndefined
    ELSE IF IsDigit(field.v) THEN JNum(DigitVal(field.v))
    ELSE NaN

\* formData.get('duration') as string || null
DurationOfForm(field) ==
    IF field.t = "string" /\ field.len > 0 THEN JStr(<<field.v>>) ELSE JNull

\* the issues of UpdateModuleSchema.safeParse
UpdateModuleIssues(form) ==
    (IF form.moduleId.t # "string" THEN <<"Expected string, received null">> ELSE <<>>)
    \o StringIssues(form.title, 1) \o StringIssues(form.description, 0)
    \o (IF OrderOfForm(form.order).t = "nan" THEN <<"Expected number, received nan">>
        ELSE IF OrderOfForm(form.order).t = "number" /\ OrderOfForm(form.order).v <= 0
        THEN <<"Number must be greater than 0">>
        ELSE <<>>)

UpdateModuleForms ==
    {[moduleId |-> m, title |-> t, description |-> d, order |-> o, duration |-> u] :
        m \in {FormNoId(<<0, 0>>)} \cup {FormId(id) : id \in ModuleIds},
        t \in {FormNull, FormString(1, "U")},
        d \in {FormNull, FormString(1, "V")},
        o \in {FormNull, FormString(1, "0"), FormString(1, "5"), FormString(1, "x")},
        u \in {FormNull, FormString(0, ""), FormString(1, "h")}}

\* prisma.syllabusModule.update({where: {id}, data: updates}) on the row that
\* has the id: a value that is undefined leaves its column alone
UpdatedModule(row, form) ==
    [row EXCEPT !.title = JStr(<<form.title.v>>), !.description = JStr(<<form.description.v>>),
                !.order = IF OrderOfForm(form.order).t = "undefined" THEN @
                          ELSE OrderOfForm(form.order),
                !.duration = IF DurationOfForm(form.duration).t = "undefined" THEN @
                             ELSE DurationOfForm(form.duration)]

\* updateModule: the form is validated, then the row of the module is updated
UpdateModule ==
    /\ Request
    /\ \E form \in UpdateModuleForms :
          /\ input' = form
          /\ IF UpdateModuleIssues(form) # <<>>
             THEN /\ response' = Failure("updateModule", Message(UpdateModuleIssues(form)[1], 0))
                  /\ invoked' = {}
                  /\ UNCHANGED modules
             ELSE /\ invoked' = {"updateModule"}
                  /\ \/ IF HasModule(form.moduleId.id)
                        THEN /\ modules' = {IF m.id = form.moduleId.id THEN UpdatedModule(m, form)
                                            ELSE m : m \in modules}
                             /\ response' = Success("updateModule", <<>>)
                        ELSE /\ response' = Failure("updateModule",
                                  Surfaced(TRUE, Message(RecordNotFound, 0), "Failed to update module"))
                             /\ UNCHANGED modules
                     \/ /\ response' = Failure("updateModule",
                                  Surfaced(TRUE, Message(StorageError, 0), "Failed to update module"))
                        /\ UNCHANGED modules
    /\ UNCHANGED <<courses, users>>

\* a store that deletes the row of the course and nothing else
ModulesKept(courseId) == modules

\* the module rows left once the row of the course is deleted: the delete
\* cascades to the rows of the course
ModulesAfterCourseDelete(courseId) == {m \in modules : m.courseId # courseId}

\* prisma.course.delete({where: {id}})
CoursesAfterDelete(courseId) == SelectSeq(courses, LAMBDA c : c.id # courseId)

\* deleteCourse: the row of the course is deleted
DeleteCourse ==
    /\ Request
    /\ \E courseId \in CourseIds :
          /\ input' = [courseId |-> FormId(courseId)]
          /\ \/ IF HasCourse(courseId)
                THEN /\ courses' = CoursesAfterDelete(courseId)
                     /\ modules' = ModulesAfterCourseDelete(courseId)
                     /\ response' = Success("deleteCourse", <<>>)
                ELSE /\ response' = Failure("deleteCourse",
                          Surfaced(TRUE, Message(RecordNotFound, 0), "Failed to delete course"))
                     /\ UNCHANGED <<courses, modules>>
             \/ /\ response' = Failure("deleteCourse",
                          Surfaced(TRUE, Message(StorageError, 0), "Failed to delete course"))
                /\ UNCHANGED <<courses, modules>>
    /\ invoked' = {"deleteCourse"}
    /\ UNCHANGED users

(***************************************************************************)
(* The specifications.                                                     *)
(***************************************************************************)
Next ==
    \/ RejectGenerate
    \/ StartGenerate
    \/ CallStructured
    \/ CallPlainText
    \/ Exhausted
    \/ StrictParse
    \/ AggressiveRepair
    \/ FieldExtraction
    \/ Validate
    \/ TxCreateCourse
    \/ TxCreateModule
    \/ TxModuleFails
    \/ TxCommit
    \/ Respond

\* generate requests one after the other
Spec == Init /\ [][Next]_vars

\* the answers of the model in the specification of the stored courses
StoreAnswers ==
    {Answer(Course(<<"T">>, <<"D">>, <<ModuleA, ModuleC>>), "compact", "none", "none"),
     Answer(Course(<<"S">>, <<"D">>, <<ModuleB>>), "compact", "none", "none"),
     NoAnswer}

\* generateCourse up to the call of createCourseWithModules, with the work of
\* generateCourseSyllabus taken in one step: the first model answers, and the
\* syllabus parsed from the answer is returned or the error is thrown; or the
\* store rejects the look-up of the user
GenerateSyllabus ==
    /\ pc = "idle"
    /\ requests < MaxRequests
    /\ requests' = requests + 1
    /\ \E form \in GenerateForms :
          /\ Validated(form) = <<>>
          /\ input' = form
    /\ log' = <<>>
    /\ response' = NoResponse
    /\ \/ /\ users' = users \cup {DemoUser}
          /\ invoked' = {"getOrCreateUser", "generateCourseSyllabus"}
          /\ \E a \in StoreAnswers :
                /\ Render(a) # <<>> => gemini.key
                /\ IF Render(a) = <<>>
                   THEN /\ result' = UpstreamUnavailable(<<AVAILABLE_MODELS[1]>>, NoError)
                        /\ pc' = "done"
                   ELSE /\ result' = [NoResult EXCEPT
                                         !.ok = TRUE,
                                         !.v = ValidateStructure(JSONparse(CleanJsonContent(Render(a))).v).v]
                        /\ pc' = "save"
       \/ /\ invoked' = {"getOrCreateUser"}
          /\ result' = Thrown(StorageError)
          /\ pc' = "done"
          /\ UNCHANGED users
    /\ UNCHANGED <<genVars, parseVars, dbVars, envVars>>

NextStore ==
    \/ RejectGenerate
    \/ GenerateSyllabus
    \/ TxCreateCourse
    \/ TxCreateModule
    \/ TxModuleFails
    \/ TxCommit
    \/ Respond
    \/ GetAllCourses
    \/ GetCourse
    \/ UpdateCourse
    \/ UpdateModule
    \/ DeleteCourse

\* the requests of the page one after the other, over the stored courses
SpecStore == Init /\ [][NextStore]_vars

\* the parser alone, on every answer of Answers
InitParser ==
    /\ pc = "parse"
    /\ requests = 1
    /\ modelsToTry = SubSeq(AVAILABLE_MODELS, 1, 1)
    /\ modelIndex = 1
    /\ \E a \in Answers :
          /\ Render(a) # <<>>
          /\ answer = a
          /\ content = Render(a)
          /\ calls = <<Call(AVAILABLE_MODELS[1], "json", FALSE, Render(a))>>
    /\ lastError = NoError
    /\ jsonContent = <<>>
    /\ parseError = 0
    /\ parsedData = JUndefined
    /\ tier = 0
    /\ result = NoResult
    /\ courses = <<>>
    /\ modules = {}
    /\ tx = NoTx
    /\ rolledBack = {}
    /\ apiKey = TRUE
    /\ discovery = NoDiscovery
    /\ userRows = <<>>
    /\ upsert = <<>>
    /\ page = NoPage
    /\ inflight = {}
    /\ users = {DemoUser}
    /\ input = [topic |-> FormString(1, ""), difficulty |-> FormString(8, "beginner")]
    /\ invoked = {"getOrCreateUser", "generateCourseSyllabus"}
    /\ log = <<>>
    /\ response = NoResponse

NextParser ==
    \/ StrictParse
    \/ AggressiveRepair
    \/ FieldExtraction
    \/ Validate
    \/ Respond

SpecParser == InitParser /\ [][NextParser]_vars

(***************************************************************************)
(* Properties of the loop over the candidate models.                       *)
(***************************************************************************)
\* the calls of the request that returned no text
AllCallsEmpty == \A k \in 1..Len(calls) : calls[k].text = <<>>

\* the parser is at work, or has been
ParserEntered == pc \in {"parse", "repair", "extract", "validate", "save", "modules"}

\* C1: the identifiers are called in list order; a call that returns non-empty
\* text is the last call of the request and its text is the text handed to the
\* parser; when no call throws, the calls are one JSON-mode call per identifier,
\* in list order, up to the first that returned non-empty text.
C1_StopsAtFirstNonEmptyText ==
    /\ \A j, k \in 1..Len(calls) :
          j < k => ModelPos(calls[j].model) <= ModelPos(calls[k].model)
    /\ \A k \in 1..Len(calls) :
          calls[k].text # <<>> =>
             /\ k = Len(calls)
             /\ content = calls[k].text
             /\ pc \notin {"loop", "fallback"}
    /\ (\A k \in 1..Len(calls) : ~calls[k].threw) =>
          \A k \in 1..Len(calls) :
             calls[k].model = modelsToTry[k] /\ calls[k].mode = "json"
    /\ pc = "parse" => content # <<>> /\ content = calls[Len(calls)].text

\* every identifier but the last returned empty text, the last one a text
C1_Witness ==
    /\ pc = "parse"
    /\ Len(calls) = Len(modelsToTry)
    /\ Len(calls) >= 2
    /\ \A k \in 1..(Len(calls) - 1) : ~calls[k].threw /\ calls[k].text = <<>>
    /\ calls[Len(calls)].text # <<>>

\* the error of the most recent candidate that failed: a candidate fails when
\* its plain-text call throws
LastFailure ==
    LET ks == {k \in 1..Len(calls) : calls[k].mode = "text" /\ calls[k].threw}
    IN  IF ks = {} THEN NoError
        ELSE [model |-> calls[CHOOSE k \in ks : \A j \in ks : j <= k].model, mode |-> "text"]

C3_PlainTextIffStructuredRejected ==
    \A k \in 1..Len(calls) :
       /\ calls[k].mode = "text" =>
             /\ k > 1
             /\ calls[k - 1].mode = "json"
             /\ calls[k - 1].threw
             /\ calls[k - 1].model = calls[k].model
       /\ (calls[k].mode = "json" /\ calls[k].threw) =>
             IF k < Len(calls)
             THEN calls[k + 1].mode = "text" /\ calls[k + 1].model = calls[k].model
             ELSE pc = "fallback"
       /\ (calls[k].mode = "json" /\ ~calls[k].threw) =>
             IF k < Len(calls)
             THEN /\ calls[k].text = <<>>
                  /\ calls[k + 1].mode = "json"
                  /\ ModelPos(calls[k + 1].model) = ModelPos(calls[k].model) + 1
             ELSE pc # "fallback"

\* an empty JSON-mode answer, then a rejected JSON-mode call and its plain-text call
C3_Witness ==
    /\ Len(calls) >= 3
    /\ calls[1].mode = "json" /\ ~calls[1].threw /\ calls[1].text = <<>>
    /\ calls[2].mode = "json" /\ calls[2].threw
    /\ calls[3].mode = "text" /\ calls[3].model = calls[2].model

(***************************************************************************)
(* Properties of the store.                                                *)
(***************************************************************************)
\* C4: after createCourseWithModules failed on a module, the course row and the
\* module rows of the call are in no table and neither getCourseById nor
\* listCoursesByUser shows them; the rows of an open transaction are not
\* visible either.
C4_CreateIsAllOrNothing ==
    /\ \A r \in rolledBack :
          /\ \A i \in 1..Len(courses) : courses[i].id # r.id
          /\ ModulesOf(r.id) = {}
          /\ ~getCourseById(r.id).found
          /\ \A i \in 1..Len(listCoursesByUser(DemoUser)) :
                listCoursesByUser(DemoUser)[i].id # r.id
    /\ tx.open =>
          /\ ~getCourseById(requests).found
          /\ ModulesOf(requests) = {}

\* a module insertion failed after another module row had been written, and
\* an earlier course is stored
C4_Witness ==
    /\ pc = "done"
    /\ \E r \in rolledBack : r.id = requests /\ r.written >= 1
    /\ Len(courses) >= 1

(***************************************************************************)
(* Properties of the recovery of the course from the text.                 *)
(***************************************************************************)
\* a natural number in decimal
RECURSIVE Decimal(_)
Decimal(n) ==
    IF n < 10 THEN <<Digits[n + 1]>> ELSE Decimal(n \div 10) \o <<Digits[(n % 10) + 1]>>

\* a value as its type and its text, so that values of any two types compare
Shown(value) ==
    [t |-> value.t,
     text |-> IF value.t = "string" THEN value.v
              ELSE IF value.t = "number"
              THEN (IF value.v < 0 THEN <<"-">> \o Decimal(0 - value.v) ELSE Decimal(value.v))
              ELSE <<>>]

ShownModule(module) ==
    [title |-> Shown(Prop(module, <<"title">>)),
     description |-> Shown(Prop(module, <<"description">>)),
     order |-> Shown(Prop(module, <<"order">>)),
     duration |-> Shown(Prop(module, <<"duration">>))]

ShownModules(ms) == [i \in 1..Len(ms) |-> ShownModule(ms[i])]

ShownCourse(course) ==
    [title |-> Shown(Prop(course, <<"title">>)),
     description |-> Shown(Prop(course, <<"description">>)),
     modules |-> IF IsArray(Prop(course, <<"modules">>))
                 THEN ShownModules(Prop(course, <<"modules">>).v)
                 ELSE <<>>]

\* what a run of the parser ended with
Outcome(r) == [ok |-> r.ok, error |-> r.error, course |-> ShownCourse(r.v)]

\* the JSON of the answer, with every separator, parsed as it stands and
\* validated
DirectResult(a) ==
    ValidateStructure(JSONparse(RenderCourse(a.course, a.layout, "none")).v)

\* the parser has ended
ParserEnded == pc \in {"save", "done"}

\* C5: a well-formed JSON text of a course, bare or in a code fence, gives the
\* result of parsing the JSON as it stands, order defaulted; no string of it is
\* altered.
C5_WellFormedParsesAsDirect ==
    (ParserEnded /\ answer \in WellFormedAnswers /\ answer.course \in GoodCourses) =>
       Outcome(result) = Outcome(DirectResult(answer))

\* C6: a text in lines that lacks the one comma between two adjacent lines
\* holding strings gives the result of parsing the text with the comma.
C6_MissingCommaBetweenStringsRepaired ==
    (/\ ParserEnded
     /\ answer \in DefectiveAnswers
     /\ answer.course \in GoodCourses
     /\ answer.defect \in {"afterTitle", "afterModuleTitle"}) =>
       Outcome(result) = Outcome(DirectResult(answer))

\* C7: prose, a well-formed JSON course object and prose give the course of the
\* object, also when the prose holds braces (the strings of the course hold
\* neither commas nor braces here).
C7_ObjectInProseRecovered ==
    (ParserEnded /\ answer \in ProseAnswers /\ answer.course.title = <<"T">>) =>
       Outcome(result) = Outcome(DirectResult(answer))

\* both JSON.parse attempts failed, so that the fields were extracted by pattern
ExtractionRan == ParserEnded /\ parseError # 0 /\ ~JSONparse(jsonContent).ok

IsSortedByOrder(ms) ==
    \A i, j \in 1..Len(ms) : i < j => OrderOf(ms[i]) <= OrderOf(ms[j])

Count(xs, x) == Cardinality({i \in 1..Len(xs) : xs[i] = x})

\* the same elements, each as many times
SameBag(xs, ys) ==
    /\ Len(xs) = Len(ys)
    /\ \A i \in 1..Len(xs) : Count(xs, xs[i]) = Count(ys, xs[i])

\* the result is the located title with all the located modules, sorted
ExtractedResult(title, found) ==
    /\ result.ok
    /\ Shown(Prop(result.v, <<"title">>)) = Shown(JStr(title.group))
    /\ IsSortedByOrder(Prop(result.v, <<"modules">>).v)
    /\ SameBag(ShownModules(Prop(result.v, <<"modules">>).v), ShownModules(found))

\* C8, as stated: after two failed parses, a located title and at least one
\* located module give a result with all the located modules sorted by order,
\* whether or not a description was located; otherwise the parse fails as
\* invalid JSON.
C8_ExtractionSucceedsWithTitleAndModule ==
    ExtractionRan =>
       IF titleMatch(jsonContent).found /\ Len(ModulesIn(modulesMatch(jsonContent))) > 0
       THEN ExtractedResult(titleMatch(jsonContent), ModulesIn(modulesMatch(jsonContent)))
       ELSE ~result.ok /\ result.error = "Invalid JSON received from AI"

\* C8, amended: after two failed parses, a located title and at least one
\* located module give a candidate that is validated like any other: with a
\* non-empty first located description the result has all the located modules
\* sorted by order, with an empty one the structure is invalid; with no title or
\* no module the parse fails as invalid JSON.
C8_ExtractionThenValidation ==
    ExtractionRan =>
       IF titleMatch(jsonContent).found /\ Len(ModulesIn(modulesMatch(jsonContent))) > 0
       THEN IF descMatch(jsonContent).found /\ descMatch(jsonContent).group # <<>>
            THEN ExtractedResult(titleMatch(jsonContent), ModulesIn(modulesMatch(jsonContent)))
            ELSE ~result.ok /\ result.error = "Invalid course data structure received from AI"
       ELSE ~result.ok /\ result.error = "Invalid JSON received from AI"

\* two modules were located out of order and returned sorted
C8_Witness ==
    /\ ExtractionRan
    /\ result.ok
    /\ Len(ModulesIn(modulesMatch(jsonContent))) >= 2
    /\ ~IsSortedByOrder(ModulesIn(modulesMatch(jsonContent)))

\* the candidate lacks a title or a description, or its modules are no array
InvalidCandidate(candidate) ==
    \/ ~Truthy(Prop(candidate, <<"title">>))
    \/ ~Truthy(Prop(candidate, <<"description">>))
    \/ ~IsArray(Prop(candidate, <<"modules">>))

\* C9: whatever attempt gave the candidate, null among the candidates, an
\* invalid candidate ends the request with the structure-invalid error and no
\* result.
C9_InvalidCandidateIsStructureInvalid ==
    (ParserEnded /\ tier > 0 /\ InvalidCandidate(parsedData)) =>
       ~result.ok /\ result.error = "Invalid course data structure received from AI"

\* C10: in a returned result every module has an order: the one it had, 0
\* included, or else its 0-based position plus 1.
C10_OrderDefaultedToPosition ==
    result.ok =>
       LET before == Prop(parsedData, <<"modules">>).v
           after == Prop(result.v, <<"modules">>).v
       IN  /\ Len(after) = Len(before)
           /\ \A i \in 1..Len(after) :
                 /\ Prop(after[i], <<"order">>).t \notin {"undefined", "null"}
                 /\ IF Prop(before[i], <<"order">>).t \in {"undefined", "null"}
                    THEN Shown(Prop(after[i], <<"order">>)) = Shown(JNum(i))
                    ELSE Shown(Prop(after[i], <<"order">>)) = Shown(Prop(before[i], <<"order">>))

\* a result with a module that had the order 0 and a later module that had none
C10_Witness ==
    /\ result.ok
    /\ \E i, j \in 1..Len(Prop(parsedData, <<"modules">>).v) :
          /\ i < j
          /\ Shown(Prop(Prop(parsedData, <<"modules">>).v[i], <<"order">>)) = Shown(JNum(0))
          /\ Prop(Prop(parsedData, <<"modules">>).v[j], <<"order">>).t = "undefined"
          /\ Shown(Prop(Prop(result.v, <<"modules">>).v[i], <<"order">>)) = Shown(JNum(0))
          /\ Shown(Prop(Prop(result.v, <<"modules">>).v[j], <<"order">>)) = Shown(JNum(j))


(***************************************************************************)
(* Properties of the failure of every parse attempt.                       *)
(***************************************************************************)
\* the error of the first JSON.parse of the request, computed from the answer
FirstParseError == JSONparse(CleanJsonContent(content)).i

\* the text is a prefix of s, as long as s up to the limit of the preview
IsBoundedPreviewOf(text, s) ==
    /\ Len(text) = (IF Len(s) < PreviewLimit THEN Len(s) ELSE PreviewLimit)
    /\ \A k \in 1..Len(text) : text[k] = s[k]

\* C11 as stated: when every parse attempt has failed, the failure returned to
\* the caller carries the message of the first parse error and a bounded
\* preview of the text that could not be parsed.
C11_CallerGetsErrorAndPreview ==
    (response.action = "generateCourse" /\ response.error.text = InvalidJson) =>
        /\ response.error.original = FirstParseError
        /\ IsBoundedPreviewOf(response.error.preview, jsonContent)

C11_Step ==
    /\ (pc = "extract" /\ pc' = "done") =>
          /\ result'.error = InvalidJson
          /\ \E k \in 1..Len(log') : /\ log'[k].label = "JSON parsing failed after all attempts. Content preview:"
                                     /\ IsBoundedPreviewOf(log'[k].text, jsonContent)
          /\ UNCHANGED <<calls, parseVars>>
    /\ (pc = "done" /\ result.error = InvalidJson) =>
          /\ pc' = "idle"
          /\ response' = Failure("generateCourse", Message(InvalidJson, FirstParseError))
          /\ FirstParseError > 0
          /\ UNCHANGED <<calls, parseVars>>

\* C11, amended: when every parse attempt has failed, a preview of at most
\* PreviewLimit units of the text is written to the error log, the failure
\* returned to the caller quotes the first parse error and no part of the
\* text, and the request ends with no further parse attempt or model call.
C11_PreviewLoggedFirstErrorReturned == [][C11_Step]_vars

\* the long text has failed every attempt: its preview is cut at the
\* limit, and the first error is not the error of the second attempt
C11_Witness ==
    /\ pc = "idle"
    /\ response.error.text = InvalidJson
    /\ response.error.original # JSONparse(jsonContent).i
    /\ Len(jsonContent) > PreviewLimit
    /\ \E k \in 1..Len(log) : Len(log[k].text) = PreviewLimit


(***************************************************************************)
(* Properties of the server actions over the stored courses.               *)
(***************************************************************************)
\* a user who has never used the page
OtherUser == "other@example.com"

\* the ids of the courses of a user; a course has the number of the request
\* that created it as its id, so a newer course has the greater id
CourseIdsOf(userId) == {courses[k].id : k \in {j \in 1..Len(courses) : courses[j].userId = userId}}

\* C12: after any requests, the listing of a user holds exactly the courses of
\* that user, each once, the newer before the older, each with as many
\* modules as there are module rows of the course; getAllCourses returns the
\* listing of the demo user with those counts.
C12_ListingIsTheUsersCoursesNewestFirst ==
    /\ \A u \in {DemoUser, OtherUser} :
          LET l == listCoursesByUser(u)
          IN  /\ {l[i].id : i \in 1..Len(l)} = CourseIdsOf(u)
              /\ \A i, j \in 1..Len(l) : i < j => l[i].id > l[j].id
              /\ \A i \in 1..Len(l) :
                    Cardinality(l[i].moduleIds)
                      = Cardinality({m \in modules : m.courseId = l[i].id})
    /\ (response.action = "getAllCourses" /\ response.success) =>
          /\ {response.data[i].id : i \in 1..Len(response.data)} = CourseIdsOf(DemoUser)
          /\ \A i, j \in 1..Len(response.data) : i < j => response.data[i].id > response.data[j].id
          /\ \A i \in 1..Len(response.data) :
                response.data[i].moduleCount
                  = Cardinality({m \in modules : m.courseId = response.data[i].id})

\* two courses with different numbers of modules are listed
C12_Witness ==
    /\ pc = "idle"
    /\ Len(listCoursesByUser(DemoUser)) = 2
    /\ Cardinality(listCoursesByUser(DemoUser)[1].moduleIds)
         # Cardinality(listCoursesByUser(DemoUser)[2].moduleIds)
    /\ listCoursesByUser(OtherUser) = <<>>


\* C13: once deleteCourse has succeeded for a course no module row of that
\* course is left, and in every state every module row belongs to a course
\* that has a row.
C13_NoModuleWithoutCourse ==
    /\ \A m \in modules : \E k \in 1..Len(courses) : courses[k].id = m.courseId
    /\ (response.action = "deleteCourse" /\ response.success) =>
          /\ \A m \in modules : m.courseId # input.courseId.id
          /\ \A k \in 1..Len(courses) : courses[k].id # input.courseId.id

\* a course that had module rows has been deleted
C13_Witness ==
    /\ response.action = "deleteCourse"
    /\ response.success
    /\ courses = <<>>
    /\ modules = {}
    /\ result.ok
    /\ Len(Prop(result.v, <<"modules">>).v) = 2


\* the modules are all the module rows of the course, each once, in
\* ascending order of the order column
AllModulesAscending(ms, courseId) ==
    /\ {ms[i] : i \in 1..Len(ms)} = {m \in modules : m.courseId = courseId}
    /\ Len(ms) = Cardinality({m \in modules : m.courseId = courseId})
    /\ \A i, j \in 1..Len(ms) : i < j => ms[i].order.v <= ms[j].order.v

\* C14: for a course that exists getCourseById returns all the modules of the
\* course in ascending order of their order as stored now, whatever
\* updateModule has written to the order of its modules; the request of the
\* page returns them so.
C14_ModulesAscendingByCurrentOrder ==
    /\ \A courseId \in CourseIds :
          HasCourse(courseId) =>
             /\ getCourseById(courseId).found
             /\ AllModulesAscending(getCourseById(courseId).modules, courseId)
    /\ (response.action = "getCourseById" /\ response.success) =>
          AllModulesAscending(response.data[1].modules, input.courseId.id)

\* updateModule has moved the first of two modules behind the second
C14_Witness ==
    /\ response.action = "updateModule"
    /\ response.success
    /\ input.order.t = "string"
    /\ HasCourse(1)
    /\ Len(getCourseById(1).modules) = 2
    /\ getCourseById(1).modules[1].id = <<1, 1>>
    /\ getCourseById(1).modules[2].id = <<1, 2>>
    /\ getCourseById(1).modules[2].order.v = 5


\* the issues the schema of the handler finds in the form of the request
IssuesOf(action, form) ==
    IF action = "updateCourse" THEN UpdateCourseIssues(form)
    ELSE IF action = "updateModule" THEN UpdateModuleIssues(form)
    ELSE IF action \in {"", "generateCourse"} THEN GenerateCourseIssues(form)
    ELSE <<>>

\* a request of generateCourse, updateCourse or updateModule starts with a
\* form that has issues: it ends at once with the first issue as its error,
\* no service is called, and no user row, model call or stored row changes
C15_Step ==
    (requests' = requests + 1 /\ IssuesOf(response'.action, input') # <<>>) =>
        /\ response' = Failure(IF response'.action = "" THEN "generateCourse" ELSE response'.action,
                               Message(IssuesOf(response'.action, input')[1], 0))
        /\ response'.error.text # ""
        /\ invoked' = {}
        /\ pc' = "idle"
        /\ UNCHANGED <<users, calls, courses, modules, tx>>

\* C15: generateCourse, updateCourse and updateModule validate the form before
\* they call any service; when the validation fails they return success=false
\* with the message of the validation and have found or created no user, called
\* no model and read or written no stored row.
C15_ValidationBeforeAnyService == [][C15_Step]_vars

\* updateModule has refused an order of 0 for a module that exists
C15_Witness ==
    /\ response.action = "updateModule"
    /\ ~response.success
    /\ response.error.text = "Number must be greater than 0"
    /\ HasModule(input.moduleId.id)
    /\ invoked = {}


Actions ==
    {"generateCourse", "getAllCourses", "getCourseById", "updateCourse", "updateModule",
     "deleteCourse"}

\* a request ends: it ends with a response of the action, and a response that
\* is no success carries an error text; a generate request in which a service
\* has thrown ends with such a response
C16_Step ==
    /\ response'.action # "" =>
          /\ response'.action \in Actions
          /\ response'.success \in BOOLEAN
          /\ ~response'.success => response'.error.text # ""
          /\ response'.success => response'.error = NoMessage
    /\ (pc = "done" /\ ~result.ok) =>
          /\ pc' = "idle"
          /\ response'.action = "generateCourse"
          /\ ~response'.success
          /\ response'.error.text = result.error
    /\ (requests' = requests + 1) => (response'.action = "" <=> pc' \in {"save", "done", "loop"})

\* C16: no action throws to its caller: whenever a service it calls raises an
\* error the action returns a response with success=false and an error text
\* that is not empty.
C16_ErrorsBecomeResponses == [][C16_Step]_vars

\* the store has rejected a write of the transaction and the request has
\* ended with a response
C16_Witness ==
    /\ pc = "idle"
    /\ rolledBack # {}
    /\ response.action = "generateCourse"
    /\ ~response.success
    /\ response.error.text # ""


\* C17: when the store rejects an operation inside an action, the error
\* returned to the caller is a generic message and never the text of the
\* error of the store.
C17_StoreErrorNotSurfaced ==
    (response.action \in Actions /\ ~response.success) => response.error.text # StorageError


\* the request is one of the four that take a key, its form is valid, and no
\* row has the key
KeyMissing(action, form) ==
    \/ action \in {"getCourseById", "deleteCourse"} /\ ~HasCourse(form.courseId.id)
    \/ action = "updateCourse" /\ UpdateCourseIssues(form) = <<>> /\ ~HasCourse(form.courseId.id)
    \/ action = "updateModule" /\ UpdateModuleIssues(form) = <<>> /\ ~HasModule(form.moduleId.id)

NotFoundTexts == {"Course not found", RecordNotFound}

\* a request with a key that no row has fails, with a not-found text unless
\* the store has failed, and changes no row; the not-found texts are returned
\* for no other failure
C18_Step ==
    (requests' = requests + 1) =>
        /\ KeyMissing(response'.action, input') =>
              /\ ~response'.success
              /\ response'.error.text \in NotFoundTexts \cup {StorageError}
              /\ UNCHANGED <<courses, modules, users>>
        /\ response'.error.text \in NotFoundTexts => KeyMissing(response'.action, input')

\* C18: getCourse, updateCourse, updateModule and deleteCourse, given a key
\* that no stored record has, fail with a not-found error that differs from
\* the error of a failure of the store, and leave every stored row unchanged.
C18_MissingKeyIsNotFound == [][C18_Step]_vars

\* updateModule on the key of a module that was never created, next to the
\* rows of a course
C18_Witness ==
    /\ response.action = "updateModule"
    /\ response.error.text = RecordNotFound
    /\ ~HasModule(input.moduleId.id)
    /\ modules # {}


Kept(field, before, after) == field.t = "null" => after = before

C20_Step ==
    (requests' = requests + 1 /\ response'.action = "updateModule") =>
        /\ courses' = courses
        /\ Cardinality(modules') = Cardinality(modules)
        /\ \A m \in modules :
              (~response'.success \/ m.id # input'.moduleId.id) => m \in modules'
        /\ response'.success =>
              \E m \in modules, n \in modules' :
                 /\ m.id = input'.moduleId.id
                 /\ n.id = m.id
                 /\ n.courseId = m.courseId
                 /\ Kept(input'.title, m.title, n.title)
                 /\ Kept(input'.description, m.description, n.description)
                 /\ Kept(input'.order, m.order, n.order)
                 /\ Kept(input'.duration, m.duration, n.duration)

\* C20: updateModule changes only the fields the caller supplied: each of
\* title, description, order and duration that is absent from the request
\* keeps its stored value, and the course of the module and all other modules
\* are unchanged.
C20_OnlySuppliedFieldsChange == [][C20_Step]_vars


(***************************************************************************)
(* Properties of the validation of the generate form.                      *)
(***************************************************************************)
\* the rule the form violates first when the topic must be shorter than
\* MaxTopicLength characters ("": none)
FirstViolatedRule(form) ==
    IF form.topic.t # "string" THEN "Expected string, received null"
    ELSE IF form.topic.len < 1 THEN "Topic is required"
    ELSE IF form.topic.len >= MaxTopicLength THEN "Topic must be less than 200 characters"
    ELSE IF form.difficulty.t # "string" \/ form.difficulty.v \notin DIFFICULTY_LEVELS
    THEN "Difficulty must be beginner, intermediate, or advanced"
    ELSE ""

\* C22: generateCourse accepts a form if and only if the topic is a string of
\* at least 1 and less than 200 characters and the difficulty is one of the
\* three levels; every other form is rejected with the message of the first
\* rule it violates.
C22_AcceptsIffTopicShorterThanLimit ==
    (requests > 0 /\ response.action \in {"", "generateCourse"}) =>
        /\ invoked # {} <=> FirstViolatedRule(input) = ""
        /\ invoked = {} => response = Failure("generateCourse", Message(FirstViolatedRule(input), 0))

(***************************************************************************)
(* Properties of the order of the recovery tiers.                          *)
(***************************************************************************)
FirstParse == JSONparse(CleanJsonContent(content))

C23_Step ==
    /\ (pc' = "repair" /\ pc # "repair") => pc = "parse" /\ ~FirstParse.ok
    /\ (pc' = "extract" /\ pc # "extract") =>
           /\ pc = "repair"
           /\ ~FirstParse.ok
           /\ ~JSONparse(AggressiveFix(jsonContent)).ok
    /\ jsonContent' # jsonContent =>
           \/ pc = "parse" /\ jsonContent' = CleanJsonContent(content)
           \/ pc = "repair" /\ jsonContent' = AggressiveFix(jsonContent)
    /\ (pc = "parse" /\ pc' # "parse" /\ FirstParse.ok) =>
           pc' = "validate" /\ tier' = 1 /\ parsedData' = FirstParse.v
    /\ (pc = "repair" /\ pc' # "repair" /\ JSONparse(AggressiveFix(jsonContent)).ok) =>
           pc' = "validate" /\ tier' = 2
    /\ pc = "validate" =>
           pc' \in {"validate", "save", "done"} /\ UNCHANGED <<jsonContent, parsedData, tier>>
    /\ tier # 0 => tier' = tier

\* C23: the tiers run in order and stop at the first success: the aggressive
\* repair runs only after the first parse has failed, the field extraction
\* only after the second parse has failed as well, and a text that parses at
\* the first attempt reaches the validation as the clean-up left it.
C23_TiersInOrder == [][C23_Step]_vars

C23_Witness == pc = "validate" /\ tier = 3 /\ ~FirstParse.ok

(***************************************************************************)
(* Properties of the field extraction.                                     *)
(***************************************************************************)
\* the fragments { ... } of the text that hold a title, a description and a
\* numeric order, wherever the three stand inside the fragment
RECURSIVE ShapedFragmentsFrom(_, _)
ShapedFragmentsFrom(s, i) ==
    LET b == indexOf(s, "{", i)
        c == indexOf(s, "}", b + 1)
        t == FindStringField(s, b + 1, "title", 1)
        d == FindStringField(s, b + 1, "description", 0)
        o == FindNumberField(s, b + 1, "order")
    IN  IF b = 0 \/ c = 0 THEN <<>>
        ELSE (IF /\ t.found /\ t.end < c
                 /\ d.found /\ d.end < c
                 /\ o.found /\ o.end < c
              THEN <<ModuleDraft(t.group, d.group, o.group)>>
              ELSE <<>>) \o ShapedFragmentsFrom(s, c + 1)

ExtractionAttempted == tier = 3 \/ (tier = 0 /\ pc \notin {"parse", "repair", "extract"})

MaxListed == 2

\* one entry of data.models: its name, with or without the prefix models/,
\* and its supportedGenerationMethods; an entry can lack either, or be null
NoName == [given |-> FALSE, prefix |-> "", id |-> ""]
ModelName(prefix, id) == [given |-> TRUE, prefix |-> prefix, id |-> id]
NoMethods == [given |-> FALSE, v |-> {}]
Methods(v) == [given |-> TRUE, v |-> v]
ListedModel(name, methods) == [isNull |-> FALSE, name |-> name, methods |-> methods]
NullEntry == [isNull |-> TRUE, name |-> NoName, methods |-> NoMethods]

ListedEntries ==
    {NullEntry,
     ListedModel(NoName, NoMethods),
     ListedModel(NoName, Methods({"generateContent"})),
     ListedModel(ModelName("models/", "gemini-2.5-flash"), Methods({"generateContent", "countTokens"})),
     ListedModel(ModelName("models/", "gemini-pro"), Methods({"generateContent"})),
     ListedModel(ModelName("models/", "embedding-001"), Methods({"embedContent"})),
     ListedModel(ModelName("", "gemini-1.5-pro"), NoMethods)}

ListsOfModels == UNION {[1..n -> ListedEntries] : n \in 0..MaxListed}

\* what the request meets: fetch throws, the status is not OK, the body is
\* no JSON, the body is null, the body has no models (undefined or null),
\* models is a string, or models is a list
Discovery(kind, models) == [kind |-> kind, models |-> models]

Discoveries ==
    {Discovery(k, <<>>) : k \in {"networkError", "notOk", "notJson", "nullBody", "noModels",
                                 "modelsNotArray"}}
      \cup {Discovery("list", l) : l \in ListsOfModels}

Returned(v) == [threw |-> FALSE, v |-> v]
ThrownList == [threw |-> TRUE, v |-> <<>>]

\* model.supportedGenerationMethods?.includes("generateContent")
SupportsGenerateContent(model) == model.methods.given /\ "generateContent" \in model.methods.v

\* model.name.replace("models/", "")
WithoutModelsPrefix(name) == name.id

\* the filter and the map over data.models: reading a member of null throws,
\* and so does replace on a name that is undefined
supportedModels(models) ==
    LET kept == SelectSeq(models, SupportsGenerateContent)
    IN  IF \E i \in 1..Len(models) : models[i].isNull THEN ThrownList
        ELSE IF \E i \in 1..Len(kept) : ~kept[i].name.given THEN ThrownList
        ELSE Returned([i \in 1..Len(kept) |-> WithoutModelsPrefix(kept[i].name)])

\* the body of the try block once the response is OK
ListFromBody(d) ==
    IF d.kind \in {"networkError", "notJson", "nullBody", "modelsNotArray"} THEN ThrownList
    ELSE IF d.kind = "noModels" THEN supportedModels(<<>>)
    ELSE supportedModels(d.models)

\* a discovery with no catch and no fallback on an empty list
listWithoutFallback(key, d) ==
    IF ~key \/ d.kind = "notOk" THEN Returned(AVAILABLE_MODELS) ELSE ListFromBody(d)

\* listAvailableModels: the fallback list without a key, on a response that
\* is not OK, on a throw, and when no listed model supports generateContent
listAvailableModels(key, d) ==
    IF ~key THEN Returned(AVAILABLE_MODELS)
    ELSE IF d.kind = "networkError" THEN Returned(AVAILABLE_MODELS)
    ELSE IF d.kind = "notOk" THEN Returned(AVAILABLE_MODELS)
    ELSE IF ListFromBody(d).threw THEN Returned(AVAILABLE_MODELS)
    ELSE IF Len(ListFromBody(d).v) > 0 THEN ListFromBody(d)
    ELSE Returned(AVAILABLE_MODELS)

\* modelsToTry: the list when it came and is not empty, the fallback otherwise
CandidateModels(available) ==
    IF available.threw THEN AVAILABLE_MODELS
    ELSE IF Len(available.v) > 0 THEN available.v
    ELSE AVAILABLE_MODELS

\* generateCourseSyllabus asks for the list before the loop
DiscoverModels ==
    /\ pc = "models"
    /\ modelsToTry' = CandidateModels(listAvailableModels(apiKey, discovery))
    /\ pc' = "loop"
    /\ UNCHANGED <<requests, modelIndex, content, lastError, calls, answer, parseVars, result,
                   dbVars, ioVars>>

InitModels ==
    /\ apiKey \in BOOLEAN
    /\ discovery \in Discoveries
    /\ userRows = <<>>
    /\ upsert = <<>>
    /\ page = NoPage
    /\ inflight = {}
    /\ users = {DemoUser}
    /\ input = [topic |-> FormString(1, ""), difficulty |-> FormString(8, "beginner")]
    /\ invoked = {"getOrCreateUser", "generateCourseSyllabus"}
    /\ log = <<>>
    /\ response = NoResponse
    /\ pc = "models"
    /\ requests = 1
    /\ modelsToTry = <<>>
    /\ modelIndex = 1
    /\ content = <<>>
    /\ lastError = NoError
    /\ calls = <<>>
    /\ answer = NoAnswer
    /\ jsonContent = <<>>
    /\ parseError = 0
    /\ parsedData = JUndefined
    /\ tier = 0
    /\ result = NoResult
    /\ courses = <<>>
    /\ modules = {}
    /\ tx = NoTx
    /\ rolledBack = {}

NextModels ==
    \/ DiscoverModels
    \/ CallStructured
    \/ CallPlainText
    \/ Exhausted

\* the discovery and the loop over the candidates it yields
SpecModels == InitModels /\ [][NextModels]_vars

\* the cases in which the fallback list is due
FallbackDue(key, d) ==
    \/ ~key
    \/ d.kind # "list"
    \/ \E i \in 1..Len(d.models) : d.models[i].isNull
    \/ \E i \in 1..Len(d.models) : SupportsGenerateContent(d.models[i]) /\ ~d.models[i].name.given
    \/ \A i \in 1..Len(d.models) : ~SupportsGenerateContent(d.models[i])

\* C25: listAvailableModels never throws and never returns an empty list; it
\* returns the fallback list without a key, on a failed or non-OK request,
\* on a malformed payload and when no listed model supports generateContent;
\* the list the loop iterates is never empty.
C25_DiscoveryNeverEmpty ==
    /\ ~listAvailableModels(apiKey, discovery).threw
    /\ listAvailableModels(apiKey, discovery).v # <<>>
    /\ FallbackDue(apiKey, discovery) =>
           listAvailableModels(apiKey, discovery).v = AVAILABLE_MODELS
    /\ pc # "models" =>
           /\ modelsToTry # <<>>
           /\ modelsToTry = listAvailableModels(apiKey, discovery).v

C25_Witness ==
    /\ pc = "done"
    /\ apiKey
    /\ discovery.kind = "list"
    /\ Len(discovery.models) = MaxListed
    /\ \A i \in 1..Len(discovery.models) : ~SupportsGenerateContent(discovery.models[i])
    /\ result.tried = AVAILABLE_MODELS

(***************************************************************************)
(* Properties of the length of a generate request.                         *)
(***************************************************************************)
\* the most steps the request in progress can still take
StepsLeft ==
    IF pc = "idle" THEN 0
    ELSE IF pc = "done" THEN 1
    ELSE IF pc = "modules" THEN 2 + Cardinality(tx.pending)
    ELSE IF pc = "save" THEN 3 + MaxModules
    ELSE IF pc = "validate" THEN 4 + MaxModules
    ELSE IF pc = "extract" THEN 5 + MaxModules
    ELSE IF pc = "repair" THEN 6 + MaxModules
    ELSE IF pc = "parse" THEN 7 + MaxModules
    ELSE IF pc = "fallback" THEN 7 + MaxModules + 2 * (Len(modelsToTry) - modelIndex + 1)
    ELSE 8 + MaxModules + 2 * (Len(modelsToTry) - modelIndex + 1)

CallsOf(model, mode) == {i \in 1..Len(calls) : calls[i].model = model /\ calls[i].mode = mode}

\* the transactions the request with this number has opened
TransactionsOf(r) ==
    Cardinality({i \in 1..Len(courses) : courses[i].id = r})
      + Cardinality({t \in rolledBack : t.id = r})
      + (IF tx.open /\ tx.course[1].id = r THEN 1 ELSE 0)

C26_Bounded ==
    /\ StepsLeft <= 8 + MaxModules + 2 * MaxModels
    /\ \A i \in 1..Len(modelsToTry) :
          /\ Cardinality(CallsOf(modelsToTry[i], "json")) <= 1
          /\ Cardinality(CallsOf(modelsToTry[i], "text")) <= 1
          /\ CallsOf(modelsToTry[i], "text") # {} => CallsOf(modelsToTry[i], "json") # {}
    /\ \A i, j \in 1..Len(calls) :
          i < j => ModelPos(calls[i].model) <= ModelPos(calls[j].model)
    /\ \A r \in 1..MaxRequests : TransactionsOf(r) <= 1

C26_Step ==
    /\ pc # "idle" => StepsLeft' < StepsLeft
    /\ users' # users => pc = "idle"
    /\ (pc' = "parse" /\ pc # "parse") => tier = 0 /\ jsonContent = <<>>
    /\ (tx'.open /\ ~tx.open) => pc = "save"
    /\ pc' = "idle" => response'.action = "generateCourse"
    /\ C26_Bounded'

\* C26: a generate request ends with a response after a bounded number of
\* steps: one find-or-create of the user, each candidate visited once with at
\* most one structured and one plain-text call, the parser run at most once,
\* at most one create transaction, and no step taken again after it failed.
C26_BoundedSteps == [][C26_Step]_vars

C26_Witness ==
    /\ pc = "idle"
    /\ response.success
    /\ Len(calls) = 2 * MaxModels
    /\ tier = 3
    /\ Len(courses) = requests

(***************************************************************************)
(* Properties of a generate request that fails before the store is         *)
(* written.                                                                *)
(***************************************************************************)
\* the request in progress, or just answered, has failed in the model
\* calls, in the parser or in the validation
FailedBeforeSave ==
    /\ pc \in {"done", "idle"}
    /\ requests > 0
    /\ ~result.ok
    /\ invoked # {}
    /\ "createCourseWithModules" \notin invoked

\* C27: a generate request that fails in the model calls, the parser or the
\* validation creates no course row and no module row; its only write is the
\* find-or-create of the demo user, made before the first model call, so the
\* user row can stand with no course.
C27_FailedGenerationWritesOnlyUser ==
    /\ FailedBeforeSave =>
          /\ invoked = {"getOrCreateUser", "generateCourseSyllabus"}
          /\ DemoUser \in users
          /\ \A i \in 1..Len(courses) : courses[i].id # requests
          /\ \A m \in modules : m.courseId # requests
          /\ \A t \in rolledBack : t.id # requests
          /\ tx = NoTx
    /\ calls # <<>> => DemoUser \in users

C27_Witness ==
    /\ FailedBeforeSave
    /\ pc = "idle"
    /\ response = Failure("generateCourse", Message("Invalid course data structure received from AI", 0))
    /\ users = {DemoUser}
    /\ courses = <<>>
    /\ modules = {}

(***************************************************************************)
(* CourseService.getOrCreateUser under concurrent requests.                *)
(***************************************************************************)
\* the requests that run side by side
MaxCallers == 3

Callers == 1..MaxCallers

UserRow(id, email, name) == [id |-> id, email |-> email, name |-> name]

\* the position of the row with this e-mail address, 0 when there is none
FindUser(rows, email) ==
    IF \E i \in 1..Len(rows) : rows[i].email = email
    THEN CHOOSE i \in 1..Len(rows) : rows[i].email = email
    ELSE 0

\* a table that takes a second row with an e-mail address it already holds
InsertedTwice(rows, email) == TRUE

\* the column email is unique: an insert of an address the table holds is
\* rejected
InsertAccepted(rows, email) == FindUser(rows, email) = 0

\* an update that writes the name the caller passed
UpdateWritesName(row, name) == [row EXCEPT !.name = name]

\* update: {}: the row as it is
UpdatedUser(row, name) == row

\* name ?? 'Demo User', with undefined written as the empty string
CreatedName(name) == IF name = "" THEN "Demo User" ELSE name

NoUpsert == [kind |-> "", name |-> "", phase |-> "idle", id |-> 0]

userVars == <<userRows, upsert, users>>
notUserVars == <<pc, requests, genVars, parseVars, result, dbVars, apiKey, discovery, page,
                 inflight, input, invoked, log, response>>

\* generateCourse or getAllCourses calls getOrCreateUser('demo@example.com',
\* 'Demo User')
CallGetOrCreateUser(c) ==
    /\ upsert[c].phase = "idle"
    /\ \E kind \in {"generateCourse", "getAllCourses"} :
          upsert' = [upsert EXCEPT ![c] = [kind |-> kind, name |-> "Demo User",
                                            phase |-> "called", id |-> 0]]
    /\ UNCHANGED <<userRows, users, notUserVars>>

\* the upsert carried out by the database in one statement
UpsertNative(c) ==
    /\ upsert[c].phase = "called"
    /\ LET at == FindUser(userRows, DemoUser)
       IN  IF at # 0
           THEN /\ userRows' = [userRows EXCEPT ![at] = UpdatedUser(@, upsert[c].name)]
                /\ upsert' = [upsert EXCEPT ![c].phase = "returned", ![c].id = userRows[at].id]
                /\ UNCHANGED users
           ELSE /\ userRows' = Append(userRows,
                                      UserRow(Len(userRows) + 1, DemoUser,
                                              CreatedName(upsert[c].name)))
                /\ upsert' = [upsert EXCEPT ![c].phase = "returned", ![c].id = Len(userRows) + 1]
                /\ users' = users \cup {DemoUser}
    /\ UNCHANGED notUserVars

\* the upsert carried out by the client in two statements: the look-up
UpsertFind(c) ==
    /\ upsert[c].phase = "called"
    /\ upsert' = [upsert EXCEPT ![c].phase =
                     IF FindUser(userRows, DemoUser) # 0 THEN "found" ELSE "missing"]
    /\ UNCHANGED <<userRows, users, notUserVars>>

\* the second statement when the row was found: the update with no data
UpsertUpdate(c) ==
    /\ upsert[c].phase = "found"
    /\ LET at == FindUser(userRows, DemoUser)
       IN  /\ userRows' = [userRows EXCEPT ![at] = UpdatedUser(@, upsert[c].name)]
           /\ upsert' = [upsert EXCEPT ![c].phase = "returned", ![c].id = userRows[at].id]
    /\ UNCHANGED <<users, notUserVars>>

\* the second statement when no row was found: the insert, which the store
\* rejects when another request has created the row in between
UpsertCreate(c) ==
    /\ upsert[c].phase = "missing"
    /\ IF InsertAccepted(userRows, DemoUser)
       THEN /\ userRows' = Append(userRows,
                                  UserRow(Len(userRows) + 1, DemoUser,
                                          CreatedName(upsert[c].name)))
            /\ upsert' = [upsert EXCEPT ![c].phase = "returned", ![c].id = Len(userRows) + 1]
            /\ users' = users \cup {DemoUser}
       ELSE /\ upsert' = [upsert EXCEPT ![c].phase = "thrown"]
            /\ UNCHANGED <<userRows, users>>
    /\ UNCHANGED notUserVars

\* the store when the requests arrive: empty, or with the user's row under a
\* name given to it elsewhere
InitUsers ==
    /\ userRows \in {<<>>, <<UserRow(1, DemoUser, "Ada")>>}
    /\ users = {userRows[i].email : i \in 1..Len(userRows)}
    /\ upsert = [c \in Callers |-> NoUpsert]
    /\ apiKey = TRUE
    /\ discovery = NoDiscovery
    /\ page = NoPage
    /\ inflight = {}
    /\ input = NoInput
    /\ invoked = {}
    /\ log = <<>>
    /\ response = NoResponse
    /\ pc = "idle"
    /\ requests = 0
    /\ modelsToTry = <<>>
    /\ modelIndex = 1
    /\ content = <<>>
    /\ lastError = NoError
    /\ calls = <<>>
    /\ answer = NoAnswer
    /\ jsonContent = <<>>
    /\ parseError = 0
    /\ parsedData = JUndefined
    /\ tier = 0
    /\ result = NoResult
    /\ courses = <<>>
    /\ modules = {}
    /\ tx = NoTx
    /\ rolledBack = {}

NextUsers ==
    \E c \in Callers :
        \/ CallGetOrCreateUser(c)
        \/ UpsertNative(c)
        \/ UpsertFind(c)
        \/ UpsertUpdate(c)
        \/ UpsertCreate(c)

\* the requests that look the user up, in any interleaving
SpecUsers == InitUsers /\ [][NextUsers]_vars

RowsOf(rows, email) == {i \in 1..Len(rows) : rows[i].email = email}

C21_Rows ==
    /\ Cardinality(RowsOf(userRows, DemoUser)) <= 1
    /\ \A c, d \in Callers :
          (upsert[c].phase = "returned" /\ upsert[d].phase = "returned") =>
              upsert[c].id = upsert[d].id
    /\ \A c \in Callers :
          upsert[c].phase = "returned" =>
              /\ FindUser(userRows, DemoUser) # 0
              /\ userRows[FindUser(userRows, DemoUser)].id = upsert[c].id

C21_Step ==
    /\ C21_Rows'
    /\ \A i \in 1..Len(userRows) : Len(userRows') >= i /\ userRows'[i] = userRows[i]

C21_RaceWitness ==
    /\ Len(userRows) = 1
    /\ userRows[1].name = "Demo User"
    /\ \E c, d \in Callers :
          upsert[c].phase = "returned" /\ upsert[d].phase = "thrown"

(***************************************************************************)
(* The Home component: the page in the browser, the server actions it      *)
(* calls, and their responses in any order.                                *)
(***************************************************************************)
\* the courses in the store when the page is opened, and the clicks of a
\* session
MaxStored == 2
MaxEvents == 4

StoredCourse(id) == [id |-> id, userId |-> DemoUser]

\* useState: the state of the component after the first render; the last seven
\* fields record the session and are not read by the component
InitialPage ==
    [activeTab |-> "generate", courses |-> <<>>, isLoadingCourses |-> FALSE,
     isLoadingCourse |-> FALSE, isGenerating |-> FALSE, isSaving |-> FALSE,
     selectedCourse |-> 0, editingCourse |-> 0,
     events |-> 0, nextId |-> 1,
     lastSelected |-> 0, detailFailed |-> FALSE, deleted |-> {}, generated |-> 0,
     refreshed |-> FALSE, reordered |-> FALSE, listFailed |-> FALSE]

\* a server action called and not yet answered to the page: activeTab and
\* selectedCourse are the values the handler closed over when it was called
Called(p, kind, course) ==
    [id |-> p.nextId, kind |-> kind, course |-> course, activeTab |-> p.activeTab,
     selectedCourse |-> p.selectedCourse, served |-> FALSE, success |-> FALSE, data |-> <<>>]

Displayed(p) == {p.courses[i] : i \in 1..Len(p.courses)}

\* loadCourses up to its await: setIsLoadingCourses(true) and the call
LoadingCourses(p) == [p EXCEPT !.isLoadingCourses = TRUE, !.nextId = @ + 1]

\* useEffect with [activeTab, courses.length]: it runs when either has
\* changed and calls loadCourses on the view tab when the list is empty
EffectLoadsCourses(before, after) ==
    /\ before.activeTab # after.activeTab \/ Len(before.courses) # Len(after.courses)
    /\ after.activeTab = "view"
    /\ Len(after.courses) = 0

\* the render after a change of state, with the effect
Rendered(before, after) ==
    /\ page' = IF EffectLoadsCourses(before, after) THEN LoadingCourses(after) ELSE after
    /\ inflight' = IF EffectLoadsCourses(before, after)
                   THEN inflight \cup {Called(after, "list", 0)}
                   ELSE inflight

Clicked(p) == [p EXCEPT !.events = @ + 1]

notPageVars == <<pc, genVars, parseVars, result, modules, tx, rolledBack, apiKey, discovery,
                 userRows, upsert, users, input, invoked, log, response>>

\* onValueChange={setActiveTab}
SwitchTab ==
    /\ page.events < MaxEvents
    /\ \E tab \in {"generate", "view"} :
          /\ tab # page.activeTab
          /\ Rendered(page, [Clicked(page) EXCEPT !.activeTab = tab])
    /\ UNCHANGED <<requests, courses, notPageVars>>

\* the Refresh button: onClick={loadCourses}, disabled while loading
Refresh ==
    /\ page.events < MaxEvents
    /\ page.activeTab = "view"
    /\ ~page.isLoadingCourses
    /\ page' = LoadingCourses([Clicked(page) EXCEPT !.refreshed = TRUE])
    /\ inflight' = inflight \cup {Called(page, "list", 0)}
    /\ UNCHANGED <<requests, courses, notPageVars>>

\* a click on a card of the list: loadCourse(course.id)
SelectCourse ==
    /\ page.events < MaxEvents
    /\ page.activeTab = "view"
    /\ \E id \in Displayed(page) :
          /\ page' = [Clicked(page) EXCEPT !.isLoadingCourse = TRUE, !.nextId = @ + 1,
                                           !.lastSelected = id]
          /\ inflight' = inflight \cup {Called(page, "detail", id)}
    /\ UNCHANGED <<requests, courses, notPageVars>>

\* handleDeleteCourse up to its await, the question answered with yes
ClickDelete ==
    /\ page.events < MaxEvents
    /\ page.activeTab = "view"
    /\ \E id \in Displayed(page) :
          /\ page' = [Clicked(page) EXCEPT !.nextId = @ + 1]
          /\ inflight' = inflight \cup {Called(page, "delete", id)}
    /\ UNCHANGED <<requests, courses, notPageVars>>

\* handleGenerate up to its await: the form stands on the generate tab, its
\* button is disabled while a generation runs
SubmitGenerate ==
    /\ page.events < MaxEvents
    /\ page.activeTab = "generate"
    /\ ~page.isGenerating
    /\ page' = [Clicked(page) EXCEPT !.isGenerating = TRUE, !.nextId = @ + 1]
    /\ inflight' = inflight \cup {Called(page, "generate", 0)}
    /\ UNCHANGED <<requests, courses, notPageVars>>

\* handleUpdateCourse up to its await
SubmitCourse ==
    /\ page.events < MaxEvents
    /\ page.activeTab = "view"
    /\ page.editingCourse # 0
    /\ ~page.isSaving
    /\ page' = [Clicked(page) EXCEPT !.isSaving = TRUE, !.nextId = @ + 1]
    /\ inflight' = inflight \cup {Called(page, "update", page.editingCourse)}
    /\ UNCHANGED <<requests, courses, notPageVars>>

Answered(r, success, data) == [r EXCEPT !.served = TRUE, !.success = success, !.data = data]

\* the ids of the stored courses, newest first
ListedIds == [i \in 1..Len(courses) |-> Reverse(courses)[i].id]

\* the server runs the action of a call: it answers with the data, or with
\* success: false when the row is missing or the store fails
Serve ==
    \E r \in inflight :
        /\ ~r.served
        /\ \/ /\ r.kind = "list"
              /\ \/ inflight' = (inflight \ {r}) \cup {Answered(r, TRUE, ListedIds)}
                 \/ inflight' = (inflight \ {r}) \cup {Answered(r, FALSE, <<>>)}
              /\ UNCHANGED <<requests, courses>>
           \/ /\ r.kind \in {"detail", "update"}
              /\ inflight' = (inflight \ {r})
                                \cup {Answered(r, HasCourse(r.course), <<r.course>>)}
              /\ UNCHANGED <<requests, courses>>
           \/ /\ r.kind = "delete"
              /\ inflight' = (inflight \ {r}) \cup {Answered(r, HasCourse(r.course), <<>>)}
              /\ courses' = CoursesAfterDelete(r.course)
              /\ UNCHANGED requests
           \/ /\ r.kind = "generate"
              /\ \/ /\ inflight' = (inflight \ {r}) \cup {Answered(r, TRUE, <<requests + 1>>)}
                    /\ courses' = Append(courses, StoredCourse(requests + 1))
                    /\ requests' = requests + 1
                 \/ /\ inflight' = (inflight \ {r}) \cup {Answered(r, FALSE, <<>>)}
                    /\ UNCHANGED <<requests, courses>>
        /\ UNCHANGED <<page, notPageVars>>

\* the page with the response taken out of the calls in progress
Heard(r) ==
    [page EXCEPT !.reordered = @ \/ \E q \in inflight : q.id < r.id]

\* loadCourse after its await: setSelectedCourse and setEditingCourse with the
\* course of the response
SelectedFromResponse(p, r) ==
    IF r.success
    THEN [p EXCEPT !.selectedCourse = r.data[1], !.editingCourse = r.data[1],
                   !.isLoadingCourse = FALSE]
    ELSE [p EXCEPT !.isLoadingCourse = FALSE, !.detailFailed = TRUE]

\* if (activeTab === "view") loadCourses(), with the activeTab of the render
\* the form was submitted in
ReloadAfterGenerate(r) == r.success /\ r.activeTab = "view"

\* the response of a call reaches the page and the handler runs to its end
Receive ==
    \E r \in inflight :
        /\ r.served
        /\ LET p == Heard(r)
               rest == inflight \ {r}
           IN  \/ /\ r.kind = "list"
                  /\ LET after == IF r.success
                                  THEN [p EXCEPT !.courses = r.data, !.isLoadingCourses = FALSE]
                                  ELSE [p EXCEPT !.isLoadingCourses = FALSE, !.listFailed = TRUE]
                     IN  /\ page' = IF EffectLoadsCourses(p, after)
                                    THEN LoadingCourses(after) ELSE after
                         /\ inflight' = IF EffectLoadsCourses(p, after)
                                        THEN rest \cup {Called(after, "list", 0)} ELSE rest
               \/ /\ r.kind = "detail"
                  /\ page' = SelectedFromResponse(p, r)
                  /\ inflight' = rest
               \/ /\ r.kind = "delete"
                  /\ LET after == IF r.success /\ r.selectedCourse = r.course
                                  THEN [p EXCEPT !.selectedCourse = 0, !.editingCourse = 0,
                                                 !.lastSelected = 0,
                                                 !.deleted = @ \cup {r.course}]
                                  ELSE IF r.success
                                  THEN [p EXCEPT !.deleted = @ \cup {r.course}]
                                  ELSE p
                     IN  /\ page' = IF r.success THEN LoadingCourses(after) ELSE after
                         /\ inflight' = IF r.success
                                        THEN rest \cup {Called(after, "list", 0)} ELSE rest
               \/ /\ r.kind = "generate"
                  /\ LET after == IF r.success
                                  THEN [p EXCEPT !.isGenerating = FALSE, !.generated = r.data[1],
                                                 !.refreshed = FALSE]
                                  ELSE [p EXCEPT !.isGenerating = FALSE]
                     IN  /\ page' = IF ReloadAfterGenerate(r) THEN LoadingCourses(after) ELSE after
                         /\ inflight' = IF ReloadAfterGenerate(r)
                                        THEN rest \cup {Called(after, "list", 0)} ELSE rest
               \/ /\ r.kind = "update"
                  /\ LET after == IF r.success
                                  THEN [p EXCEPT !.isSaving = FALSE, !.selectedCourse = r.data[1],
                                                 !.editingCourse = r.data[1], !.lastSelected = 0]
                                  ELSE [p EXCEPT !.isSaving = FALSE]
                     IN  /\ page' = IF r.success THEN LoadingCourses(after) ELSE after
                         /\ inflight' = IF r.success
                                        THEN rest \cup {Called(after, "list", 0)} ELSE rest
        /\ UNCHANGED <<requests, courses, notPageVars>>

InitPage ==
    /\ \E n \in 0..MaxStored :
          /\ courses = [i \in 1..n |-> StoredCourse(i)]
          /\ requests = n
    /\ page = InitialPage
    /\ inflight = {}
    /\ users = {DemoUser}
    /\ apiKey = TRUE
    /\ discovery = NoDiscovery
    /\ userRows = <<>>
    /\ upsert = <<>>
    /\ input = NoInput
    /\ invoked = {}
    /\ log = <<>>
    /\ response = NoResponse
    /\ pc = "idle"
    /\ modelsToTry = <<>>
    /\ modelIndex = 1
    /\ content = <<>>
    /\ lastError = NoError
    /\ calls = <<>>
    /\ answer = NoAnswer
    /\ jsonContent = <<>>
    /\ parseError = 0
    /\ parsedData = JUndefined
    /\ tier = 0
    /\ result = NoResult
    /\ modules = {}
    /\ tx = NoTx
    /\ rolledBack = {}

NextPage ==
    \/ SwitchTab
    \/ Refresh
    \/ SelectCourse
    \/ ClickDelete
    \/ SubmitGenerate
    \/ SubmitCourse
    \/ Serve
    \/ Receive

\* a session of the page over the store
SpecPage == InitPage /\ [][NextPage]_vars

(***************************************************************************)
(* Properties of the page.                                                 *)
(***************************************************************************)
NoneOutstanding(kind) == \A r \in inflight : r.kind # kind

\* C28: once deleteCourse has succeeded for a course and every list request
\* has completed, the list the page displays does not contain the course.
C28_DeletedCourseNotDisplayed ==
    NoneOutstanding("list") => page.deleted \cap Displayed(page) = {}

\* C29: when the detail requests of the courses the user selected have all
\* completed with success, selectedCourse and editingCourse hold the course
\* selected last, whatever the order of the responses.
C29_LastSelectedIsShown ==
    (NoneOutstanding("detail") /\ page.lastSelected # 0 /\ ~page.detailFailed) =>
        /\ page.selectedCourse = page.lastSelected
        /\ page.editingCourse = page.lastSelected

\* C30: after handleGenerate has completed with success, the list on the My
\* Courses tab comes to contain the new course without a press of Refresh:
\* when the user is on the tab, no list request has failed and nothing is
\* left in progress, the new course is displayed.
C30_NewCourseListedWithoutRefresh ==
    (/\ page.generated # 0
     /\ HasCourse(page.generated)
     /\ page.activeTab = "view"
     /\ ~page.refreshed
     /\ ~page.listFailed
     /\ inflight = {}) =>
        page.generated \in Displayed(page)

====
